---- MODULE Spec2Model ----
(***************************************************************************)
(* Mercury: relation-proof engine (home-protocol), the home server's       *)
(* session sinks, call brokering, registration, login and pairing          *)
(* (home-node/src/server.rs), the profile gateway (connect/src/client.rs), *)
(* the profile repository (osg/osg/src/repo.rs) and the profile vault      *)
(* (did/src/vault.rs).                                                     *)
(*                                                                         *)
(* The specifications of this module:                                      *)
(*   SpecProof  half-proofs and proofs (primitives.rs, older lib.rs API)   *)
(*   SpecSink   the event sink of one session: Buffer/Sender, the mpsc     *)
(*              channels and the tasks spawned by events()                 *)
(*   SpecCall   Home.call, the per-application call sink, answer/timeout   *)
(*   SpecReg    Home.register, Home.claim and the two profile stores       *)
(*   SpecSess   Home.login, the session table, pushes to a profile,        *)
(*              Home.pair_request and Home.pair_response                   *)
(*   SpecPair   pairing of two profiles through their gateways and homes   *)
(*   SpecGw     the gateway's login_home and its session cache             *)
(*   SpecAny    the gateway's any_home_of                                  *)
(*   SpecRepo   FileProfileRepository: set, clear, get                     *)
(*   SpecVault  HdProfileVault: keys, records and the active profile       *)
(*   SpecUnreg  HomeSession.unregister, with logins and session drops      *)
(***************************************************************************)
EXTENDS Integers, Sequences, FiniteSets, TLC

(***************************************************************************)
(* Bounds of the model                                                     *)
(***************************************************************************)
MaxIdLen == 2      \* ProfileId byte strings have 1..MaxIdLen bytes
MaxByte == 1       \* each byte is in 0..MaxByte
VersionBits == 2   \* width of Version (u64 in the code), scaled down

MaxVersion == 2^VersionBits - 1
Versions == 0..MaxVersion

(***************************************************************************)
(* State                                                                   *)
(***************************************************************************)
VARIABLES
    half,        \* the RelationHalfProof last built, or None
    halfSigner,  \* the Signer that was asked to build it, or None
    full,        \* the RelationProof completed from half, or None
    completer,   \* the Signer that last called sign_remaining_half, or None
    perr,        \* error kind of the last failed operation, "none" otherwise
    asked,       \* the last sign_remaining_half called signer.sign()
    half2,       \* the symmetric half-proof (completer -> first signer)
    full2,       \* the proof completed from half2 by the first signer
    query,       \* last peer_id/peer_signature lookup, or None
    oldHalf,     \* lib.rs RelationHalfProof, or None
    oldFull,     \* lib.rs RelationProof, or None
    oldQuery     \* last lib.rs peer_id/peer_sign lookup, or None

proofVars == <<half, halfSigner, full, completer, perr, asked, half2, full2,
               query, oldHalf, oldFull, oldQuery>>

VARIABLES
    sink,      \* sink["events"]: HomeSessionServer.events; sink[app]: .apps[app]
    chan,      \* the channels made so far, by number
    nextChan,  \* number of the next channel
    nextItem,  \* number of the next pushed event; event k is the k-th push
    pushRes    \* result of the last push_event / push_call

sinkVars == <<sink, chan, nextChan, nextItem, pushRes>>

VARIABLES
    calls,     \* calls[c]: the state of the c-th Home.call request
    online,    \* the callee has a live session registered in HomeServer.sessions
    held       \* calls taken from the app's stream, waiting for the callee's answer

callVars == <<calls, online, held>>

VARIABLES
    hosted_profile_db,   \* HomeServer.hosted_profile_db: id -> OwnProfile or None
    public_profile_dht,  \* HomeServer.public_profile_dht: id -> Profile or None
    regs,                \* regs[r]: the state of the r-th register request
    writes,              \* the successful store writes, in the order they were made
    claimed              \* what the last Home.claim did

regVars == <<hosted_profile_db, public_profile_dht, regs, writes, claimed>>

VARIABLES
    sessions,  \* HomeServer.sessions: profile id -> session number, 0 = no entry
    sess,      \* sess[s]: the s-th HomeSessionServer created by login
    pushed,    \* what the last HomeConnectionServer::push_event / push_call did
    lastLogin, \* the result of the last Home.login
    lastPair   \* the result of the last Home.pair_request / pair_response

sessVars == <<sessions, sess, pushed, lastLogin, lastPair>>

VARIABLES
    pSink,     \* pSink[p]: the event sink of p's session at its home
    pChan,     \* pChan[ChanOf(p)]: the channel made by p's events()
    pairReqs,  \* the gateway pair_request calls made so far
    pairResps  \* the gateway pair_response calls made so far

pairVars == <<pSink, pChan, pairReqs, pairResps>>

VARIABLES
    session_cache,  \* ProfileGatewayImpl.session_cache: home id -> handle, 0 = none
    gwCalls,        \* gwCalls[c]: the c-th login_home call
    nextSession,    \* the handle of the session the next Home.login returns
    firstOk         \* firstOk[h]: the handle the first successful login_home(h) gave,
                    \* the session that home h registered for the gateway's profile

gwVars == <<session_cache, gwCalls, nextSession, firstOk>>

VARIABLES
    anyProfile,   \* the profile any_home_of2 was called with, None before
    anyFuts,      \* anyFuts[i]: the future made for the i-th listed home proof
    anyInner,     \* the futures select_ok still holds, in list order
    anyFinished,  \* the futures in the order select_ok took their results
    anyRes        \* what any_home_of2's future resolved with, None while pending

anyVars == <<anyProfile, anyFuts, anyInner, anyFinished, anyRes>>

VARIABLES
    profiles,  \* FileProfileRepository.profiles: id -> ProfileData, None = no record
    repoLast   \* the last repository operation, the record before it, its result

repoVars == <<profiles, repoLast>>

VARIABLES
    next_idx,        \* HdProfileVault.next_idx
    active_idx,      \* HdProfileVault.active_idx: None or an index
    vault_profiles,  \* HdProfileVault.profiles: the records
    vaultLast,       \* the last vault operation, its argument and result
    created,         \* the ids create_key made, in creation order
    madeActive       \* the id create_key or set_active last made active

vaultVars == <<next_idx, active_idx, vault_profiles, vaultLast, created, madeActive>>

VARIABLES
    unregs,   \* unregs[u]: the u-th HomeSession.unregister call
    unregLog   \* the steps of the unregister calls, in the order they were made

unregVars == <<unregs, unregLog>>

vars == <<proofVars, sinkVars, callVars, regVars, sessVars, pairVars, gwVars,
          anyVars, repoVars, vaultVars, unregVars>>

otherThanProof == <<sinkVars, callVars, regVars, sessVars, pairVars, gwVars,
                    anyVars, repoVars, vaultVars, unregVars>>
otherThanSink == <<proofVars, callVars, regVars, sessVars, pairVars, gwVars,
                   anyVars, repoVars, vaultVars, unregVars>>
otherThanCall == <<proofVars, regVars, sessVars, pairVars, gwVars, anyVars,
                   repoVars, vaultVars, unregVars>>
otherThanReg == <<proofVars, sinkVars, callVars, sessVars, pairVars, gwVars,
                  anyVars, repoVars, vaultVars, unregVars>>
otherThanSess == <<proofVars, sinkVars, callVars, regVars, pairVars, gwVars,
                   anyVars, repoVars, vaultVars, unregVars>>
otherThanPair == <<proofVars, sinkVars, callVars, regVars, sessVars, gwVars,
                   anyVars, repoVars, vaultVars, unregVars>>
otherThanGw == <<proofVars, sinkVars, callVars, regVars, sessVars, pairVars,
                 anyVars, repoVars, vaultVars, unregVars>>
otherThanAny == <<proofVars, sinkVars, callVars, regVars, sessVars, pairVars,
                  gwVars, repoVars, vaultVars, unregVars>>
otherThanRepo == <<proofVars, sinkVars, callVars, regVars, sessVars,
                   pairVars, gwVars, anyVars, vaultVars, unregVars>>
otherThanVault == <<proofVars, sinkVars, callVars, regVars, sessVars,
                    pairVars, gwVars, anyVars, repoVars, unregVars>>
otherThanUnreg == <<proofVars, sinkVars, callVars, regVars, pairVars, gwVars,
                    anyVars, repoVars, vaultVars>>

None == [none |-> TRUE]

Ok(v) == [ok |-> TRUE, val |-> v]
Err(e) == [ok |-> FALSE, err |-> e]

(***************************************************************************)
(* Identity primitives                                                     *)
(***************************************************************************)
\* ProfileId(pub Vec<u8>)
ProfileIds == UNION {[1..n -> 0..MaxByte] : n \in 1..MaxIdLen}

\* #[derive(PartialOrd)] on ProfileId(Vec<u8>): lexicographic order, a proper
\* prefix is smaller
RECURSIVE ProfileIdLess(_, _)
ProfileIdLess(a, b) ==
    IF Len(b) = 0 THEN FALSE
    ELSE IF Len(a) = 0 THEN TRUE
    ELSE IF Head(a) < Head(b) THEN TRUE
    ELSE IF Head(a) > Head(b) THEN FALSE
    ELSE ProfileIdLess(Tail(a), Tail(b))

\* the public key whose hash is the profile id
PublicKeyOf(id) == [pk |-> id]

RelationTypes == {"hosted_on_home", "enable_call_between"}
RELATION_TYPE_HOSTED_ON_HOME == "hosted_on_home"
RELATION_TYPE_ENABLE_CALLS_BETWEEN == "enable_call_between"

\* trait Signer: profile_id(), public_key(), sign(); can_sign = FALSE is a
\* signer whose sign() returns an error
Signers == {[id |-> i, key |-> PublicKeyOf(i), can_sign |-> c] :
                i \in ProfileIds, c \in BOOLEAN}

\* Signer::sign: a deterministic function of the key and the signed bytes
Sign(signer, data) == [by |-> signer.key, data |-> data]

(***************************************************************************)
(* Relation proof engine, primitives.rs                                    *)
(***************************************************************************)
RelationSignablePart_new(relation_type, signer_id, peer_id) ==
    [relation_type |-> relation_type, signer_id |-> signer_id, peer_id |-> peer_id]

\* bincode: a String and a Vec<u8> are written as their length followed by
\* their content, the fields in declaration order
serialized(part) ==
    <<Len(part.relation_type), part.relation_type, Len(part.signer_id)>>
        \o part.signer_id \o <<Len(part.peer_id)>> \o part.peer_id

RelationSignablePart_sign(part, signer) ==
    IF signer.can_sign THEN Ok(Sign(signer, serialized(part)))
    ELSE Err("SignerFailed")

\* RelationHalfProof::new signing the relation with signer and peer exchanged
RelationHalfProof_new_swapped(relation_type, peer_id, signer) ==
    LET signable == RelationSignablePart_new(relation_type, peer_id, signer.id)
        sig == RelationSignablePart_sign(signable, signer)
    IN  IF ~sig.ok THEN sig
        ELSE Ok([relation_type |-> relation_type,
                 signer_id |-> signer.id,
                 signer_pubkey |-> signer.key,
                 peer_id |-> peer_id,
                 signature |-> sig.val])

RelationHalfProof_new(relation_type, peer_id, signer) ==
    LET signable == RelationSignablePart_new(relation_type, signer.id, peer_id)
        sig == RelationSignablePart_sign(signable, signer)
    IN  IF ~sig.ok THEN sig
        ELSE Ok([relation_type |-> relation_type,
                 signer_id |-> signer.id,
                 signer_pubkey |-> signer.key,
                 peer_id |-> peer_id,
                 signature |-> sig.val])

\* impl From<&RelationHalfProof> for RelationSignablePart
RelationSignablePart_from(src) ==
    [relation_type |-> src.relation_type, signer_id |-> src.signer_id,
     peer_id |-> src.peer_id]

\* RelationProof::new without the exchange of the two sides
RelationProof_new_unordered(relation_type, a_id, a_pubkey, a_signature, b_id, b_pubkey, b_signature) ==
    [relation_type |-> relation_type,
     a_id |-> a_id, a_pub_key |-> a_pubkey, a_signature |-> a_signature,
     b_id |-> b_id, b_pub_key |-> b_pubkey, b_signature |-> b_signature]

RelationProof_new(relation_type, a_id, a_pubkey, a_signature, b_id, b_pubkey, b_signature) ==
    IF ProfileIdLess(a_id, b_id)
    THEN [relation_type |-> relation_type,
          a_id |-> a_id, a_pub_key |-> a_pubkey, a_signature |-> a_signature,
          b_id |-> b_id, b_pub_key |-> b_pubkey, b_signature |-> b_signature]
    ELSE [relation_type |-> relation_type,
          a_id |-> b_id, a_pub_key |-> b_pubkey, a_signature |-> b_signature,
          b_id |-> a_id, b_pub_key |-> a_pubkey, b_signature |-> a_signature]

\* sign_remaining_half comparing the completer with the half-proof's signer
\* instead of its declared peer
sign_remaining_half_wrong_check(half_proof, signer) ==
    LET my_profile_id == signer.id IN
    IF half_proof.signer_id = my_profile_id
    THEN [res |-> Err("RelationSigningFailed"), asked |-> FALSE]
    ELSE LET signable == RelationSignablePart_new(half_proof.relation_type,
                                my_profile_id, half_proof.signer_id)
             sig == RelationSignablePart_sign(signable, signer)
         IN  IF ~sig.ok
             THEN [res |-> Err("RelationSigningFailed"), asked |-> TRUE]
             ELSE [res |-> Ok(RelationProof_new(half_proof.relation_type,
                                half_proof.signer_id, half_proof.signer_pubkey,
                                half_proof.signature,
                                my_profile_id, signer.key, sig.val)),
                   asked |-> TRUE]

\* res: the Result; asked: whether signer.sign() was called
sign_remaining_half(half_proof, signer) ==
    LET my_profile_id == signer.id IN
    IF half_proof.peer_id # my_profile_id
    THEN [res |-> Err("RelationSigningFailed"), asked |-> FALSE]
    ELSE LET signable == RelationSignablePart_new(half_proof.relation_type,
                                my_profile_id, half_proof.signer_id)
             sig == RelationSignablePart_sign(signable, signer)
         IN  IF ~sig.ok
             THEN [res |-> Err("RelationSigningFailed"), asked |-> TRUE]
             ELSE [res |-> Ok(RelationProof_new(half_proof.relation_type,
                                half_proof.signer_id, half_proof.signer_pubkey,
                                half_proof.signature,
                                my_profile_id, signer.key, sig.val)),
                   asked |-> TRUE]

\* peer_id answering with the b side for either side
peer_id_always_b(proof, my_id) ==
    IF proof.a_id = my_id THEN Ok(proof.b_id)
    ELSE IF proof.b_id = my_id THEN Ok(proof.b_id)
    ELSE Err("PeerIdRetreivalFailed")

peer_id(proof, my_id) ==
    IF proof.a_id = my_id THEN Ok(proof.b_id)
    ELSE IF proof.b_id = my_id THEN Ok(proof.a_id)
    ELSE Err("PeerIdRetreivalFailed")

peer_signature(proof, my_id) ==
    IF proof.a_id = my_id THEN Ok(proof.b_signature)
    ELSE IF proof.b_id = my_id THEN Ok(proof.a_signature)
    ELSE Err("PeerIdRetreivalFailed")

\* Validator::validate_half_proof: recompute the signable bytes from the
\* half-proof and verify the signature against the claimed key
validate_half_proof(half_proof, pubkey) ==
    half_proof.signature =
        [by |-> pubkey, data |-> serialized(RelationSignablePart_from(half_proof))]

(***************************************************************************)
(* Older API of home-protocol/src/lib.rs                                   *)
(***************************************************************************)
from_signable_part(signable_part, signer) ==
    [relation_type |-> signable_part.relation_type,
     my_id |-> signable_part.signer_id,
     peer_id |-> signable_part.peer_id,
     my_sign |-> Sign(signer, serialized(signable_part))]

from_halfproof(half_proof, peer_sign) ==
    IF ProfileIdLess(half_proof.my_id, half_proof.peer_id)
    THEN [relation_type |-> half_proof.relation_type,
          a_id |-> half_proof.my_id, a_sign |-> half_proof.my_sign,
          b_id |-> half_proof.peer_id, b_sign |-> peer_sign]
    ELSE [relation_type |-> half_proof.relation_type,
          a_id |-> half_proof.peer_id, a_sign |-> peer_sign,
          b_id |-> half_proof.my_id, b_sign |-> half_proof.my_sign]

\* lib.rs peer_id / peer_sign: the error is a message string
peer_id_old(proof, my_id) ==
    IF proof.a_id = my_id THEN Ok(proof.b_id)
    ELSE IF proof.b_id = my_id THEN Ok(proof.a_id)
    ELSE Err("not present in relation")

peer_sign(proof, my_id) ==
    IF proof.a_id = my_id THEN Ok(proof.b_sign)
    ELSE IF proof.b_id = my_id THEN Ok(proof.a_sign)
    ELSE Err("not present in relation")

(***************************************************************************)
(* State of the proof engine scenario: one party builds a half-proof, a    *)
(* second party completes it, the two then run the symmetric handshake,    *)
(* and the accessors are applied to the result.                            *)
(***************************************************************************)
ProofInit ==
    /\ half = None /\ halfSigner = None /\ full = None /\ completer = None
    /\ perr = "none" /\ asked = FALSE /\ half2 = None /\ full2 = None
    /\ query = None /\ oldHalf = None /\ oldFull = None /\ oldQuery = None

\* RelationHalfProof::new(relation_type, peer_id, signer), once per scenario
HalfProofNew(relation_type, peer, signer) ==
    LET r == RelationHalfProof_new(relation_type, peer, signer) IN
    /\ halfSigner = None /\ oldHalf = None
    /\ half' = IF r.ok THEN r.val ELSE None
    /\ halfSigner' = signer
    /\ perr' = IF r.ok THEN "none" ELSE r.err
    /\ full' = None /\ completer' = None /\ asked' = FALSE
    /\ half2' = None /\ full2' = None /\ query' = None
    /\ oldHalf' = None /\ oldFull' = None /\ oldQuery' = None
    /\ UNCHANGED otherThanProof

\* RelationProof::sign_remaining_half(&half, signer)
SignRemainingHalf(signer) ==
    /\ half # None
    /\ LET r == sign_remaining_half(half, signer) IN
        /\ full' = IF r.res.ok THEN r.res.val ELSE None
        /\ perr' = IF r.res.ok THEN "none" ELSE r.res.err
        /\ asked' = r.asked
    /\ completer' = signer
    /\ half2' = None /\ full2' = None /\ query' = None
    /\ UNCHANGED <<half, halfSigner, oldHalf, oldFull, oldQuery>>
    /\ UNCHANGED otherThanProof

\* the completing party builds the half-proof of the same relation in the
\* other direction
ReverseHalfProof ==
    /\ full # None /\ half2 = None
    /\ LET r == RelationHalfProof_new(half.relation_type, half.signer_id, completer) IN
        /\ r.ok
        /\ half2' = r.val
    /\ UNCHANGED <<half, halfSigner, full, completer, perr, asked, full2, query,
                   oldHalf, oldFull, oldQuery>>
    /\ UNCHANGED otherThanProof

\* ... and the first party completes it
ReverseComplete ==
    /\ half2 # None /\ full2 = None
    /\ LET r == sign_remaining_half(half2, halfSigner) IN
        /\ r.res.ok
        /\ full2' = r.res.val
    /\ UNCHANGED <<half, halfSigner, full, completer, perr, asked, half2, query,
                   oldHalf, oldFull, oldQuery>>
    /\ UNCHANGED otherThanProof

\* RelationProof::peer_id(my_id), RelationProof::peer_signature(my_id)
PeerQuery(my_id) ==
    /\ full # None
    /\ query' = [my_id |-> my_id, proof |-> full,
                 id |-> peer_id(full, my_id), sig |-> peer_signature(full, my_id)]
    /\ UNCHANGED <<half, halfSigner, full, completer, perr, asked, half2, full2,
                   oldHalf, oldFull, oldQuery>>
    /\ UNCHANGED otherThanProof

\* lib.rs RelationHalfProof::from_signable_part, once per scenario
OldHalfNew(relation_type, peer, signer) ==
    /\ halfSigner = None /\ oldHalf = None
    /\ oldHalf' = from_signable_part(
                      RelationSignablePart_new(relation_type, signer.id, peer), signer)
    /\ oldFull' = None /\ oldQuery' = None
    /\ half' = None /\ halfSigner' = None /\ full' = None /\ completer' = None
    /\ perr' = "none" /\ asked' = FALSE /\ half2' = None /\ full2' = None
    /\ query' = None
    /\ UNCHANGED otherThanProof

\* lib.rs RelationProof::from_halfproof, with the peer's signature over the
\* relation seen from its side
OldFromHalfproof(peerSigner) ==
    /\ oldHalf # None /\ oldFull = None
    /\ peerSigner.id = oldHalf.peer_id
    /\ oldFull' = from_halfproof(oldHalf,
                      Sign(peerSigner, serialized(RelationSignablePart_new(
                          oldHalf.relation_type, peerSigner.id, oldHalf.my_id))))
    /\ UNCHANGED <<half, halfSigner, full, completer, perr, asked, half2, full2,
                   query, oldHalf, oldQuery>>
    /\ UNCHANGED otherThanProof

\* lib.rs RelationProof::peer_id(my_id), RelationProof::peer_sign(my_id)
OldPeerQuery(my_id) ==
    /\ oldFull # None
    /\ oldQuery' = [my_id |-> my_id, proof |-> oldFull,
                    id |-> peer_id_old(oldFull, my_id), sig |-> peer_sign(oldFull, my_id)]
    /\ UNCHANGED <<half, halfSigner, full, completer, perr, asked, half2, full2,
                   query, oldHalf, oldFull>>
    /\ UNCHANGED otherThanProof

ProofNext ==
    \/ \E rt \in RelationTypes, p \in ProfileIds, s \in Signers : HalfProofNew(rt, p, s)
    \/ \E s \in Signers : SignRemainingHalf(s)
    \/ ReverseHalfProof
    \/ ReverseComplete
    \/ \E i \in ProfileIds : PeerQuery(i)
    \/ \E rt \in RelationTypes, p \in ProfileIds, s \in Signers : OldHalfNew(rt, p, s)
    \/ \E s \in Signers : OldFromHalfproof(s)
    \/ \E i \in ProfileIds : OldPeerQuery(i)

(***************************************************************************)
(* Properties of the proof engine                                          *)
(***************************************************************************)
\* C1: every RelationProof produced by completing a half-proof
\* (sign_remaining_half, and the older from_halfproof) has a_id < b_id, also
\* when the half-proof names its own signer as peer.
C1_ProofIdsOrdered ==
    /\ full # None => ProfileIdLess(full.a_id, full.b_id)
    /\ full2 # None => ProfileIdLess(full2.a_id, full2.b_id)
    /\ oldFull # None => ProfileIdLess(oldFull.a_id, oldFull.b_id)

\* C2: for distinct ids x and y the proof of x -> y completed by y and the
\* proof of y -> x completed by x are the same record: a is the smaller id, b
\* the larger, and each side's key and signature are in the slot of its id.
C2_SymmetricProofsEqual ==
    (full # None /\ full2 # None /\ half.signer_id # half.peer_id) =>
        LET x == half.signer_id
            y == half.peer_id
            rt == half.relation_type
            lo == IF ProfileIdLess(x, y) THEN x ELSE y
            hi == IF ProfileIdLess(x, y) THEN y ELSE x
        IN  /\ full = full2
            /\ full.relation_type = rt
            /\ full.a_id = lo /\ full.b_id = hi
            /\ full.a_pub_key = PublicKeyOf(lo) /\ full.b_pub_key = PublicKeyOf(hi)
            /\ full.a_signature = [by |-> PublicKeyOf(lo),
                   data |-> serialized(RelationSignablePart_new(rt, lo, hi))]
            /\ full.b_signature = [by |-> PublicKeyOf(hi),
                   data |-> serialized(RelationSignablePart_new(rt, hi, lo))]

\* both handshakes are complete and the first half-proof was signed by the
\* larger id, so that RelationProof::new had to exchange the sides
C2_Witness ==
    /\ full # None /\ full2 # None
    /\ ProfileIdLess(half.peer_id, half.signer_id)

\* C3: sign_remaining_half by a signer that is not the half-proof's declared
\* peer fails with the signing-failed error kind, produces no proof and does
\* not ask the signer to sign; a proof exists only if the declared peer
\* completed the half-proof.
C3_OnlyDeclaredPeerCompletes ==
    (half # None /\ completer # None) =>
        /\ half.peer_id # completer.id =>
               (full = None /\ perr = "RelationSigningFailed" /\ ~asked)
        /\ full # None => half.peer_id = completer.id

\* a signer able to sign, but not the declared peer, has tried to complete
C3_Witness ==
    /\ half # None /\ completer # None
    /\ half.peer_id # completer.id /\ completer.can_sign
    /\ completer.id # half.signer_id

\* C4: peer_id and peer_signature return the other side's id and signature
\* for my_id = a_id and for my_id = b_id, and fail with the
\* peer-id-retrieval error for any other id (both APIs).
C4_PeerAccessors ==
    /\ query # None =>
        LET p == query.proof
            m == query.my_id
        IN  /\ m = p.a_id => (query.id = Ok(p.b_id) /\ query.sig = Ok(p.b_signature))
            /\ m = p.b_id => (query.id = Ok(p.a_id) /\ query.sig = Ok(p.a_signature))
            /\ m \notin {p.a_id, p.b_id} =>
                   (/\ query.id = Err("PeerIdRetreivalFailed")
                    /\ query.sig = Err("PeerIdRetreivalFailed"))
    /\ oldQuery # None =>
        LET p == oldQuery.proof
            m == oldQuery.my_id
        IN  /\ m = p.a_id => (oldQuery.id = Ok(p.b_id) /\ oldQuery.sig = Ok(p.b_sign))
            /\ m = p.b_id => (oldQuery.id = Ok(p.a_id) /\ oldQuery.sig = Ok(p.a_sign))
            /\ m \notin {p.a_id, p.b_id} =>
                   (~oldQuery.id.ok /\ ~oldQuery.sig.ok)

\* the accessors were asked for the b side of a proof between two profiles
C4_Witness ==
    /\ query # None
    /\ query.proof.a_id # query.proof.b_id
    /\ query.my_id = query.proof.b_id

\* C5: a half-proof built by RelationHalfProof::new verifies against the
\* signer's public key: the signable part recomputed from its own fields is
\* the payload that was signed, and signer_id / signer_pubkey are the signer's.
C5_HalfProofVerifies ==
    half # None =>
        /\ validate_half_proof(half, halfSigner.key)
        /\ half.signature =
               Sign(halfSigner, serialized(RelationSignablePart_from(half)))
        /\ half.signer_id = halfSigner.id
        /\ half.signer_pubkey = halfSigner.key

\* a half-proof towards another profile has been built
C5_Witness ==
    half # None /\ half.signer_id # half.peer_id

(***************************************************************************)
(* futures::sync::mpsc bounded channel, as used by ServerSink::Sender       *)
(***************************************************************************)
ChannelCapacity == 1   \* CHANNEL_CAPACITY, the buffer of mpsc::channel
MaxChan == 2           \* number of channels created by events()/checkin_app()
MaxPush == 4           \* number of events pushed to the session

ErrItem == 0           \* the Err("WARNING: Repeated call ...") item

\* A channel and the tasks that own one of its senders:
\*   queue        messages sent and not yet received
\*   parkedQ      parked sender tasks, woken one per received message
\*   got          what the consumer (the receiver's for_each) has received
\*   flushing     the task spawned with sender.send_all(buffer) is not finished
\*   flushItems   the buffered items that task still has to send
\*   flushParked  that task's sender is parked
\*   flushFresh   that task has not been polled yet
\*   errPending   the task spawned with old_sender.send(Err(..)) has not run
\*   base         number of items pushed to the sink before the channel was made
FreshChannel ==
    [made |-> FALSE, open |-> FALSE, queue |-> <<>>, parkedQ |-> <<>>,
     got |-> <<>>, flushing |-> FALSE, flushItems |-> <<>>,
     flushParked |-> FALSE, flushFresh |-> FALSE, errPending |-> FALSE,
     base |-> 0]

\* mpsc::channel(CHANNEL_CAPACITY)
channel(base) == [FreshChannel EXCEPT !.made = TRUE, !.open = TRUE, !.base = base]

\* Sender::do_send by a sender that is not parked: the message is always
\* queued while the receiver lives, and the sender parks itself when the queue
\* then holds more than the buffer
do_send(ch, item, who) ==
    IF ~ch.open THEN [ok |-> FALSE, parked |-> FALSE, ch |-> ch]
    ELSE LET q == Append(ch.queue, item)
             park == Len(q) > ChannelCapacity
         IN  [ok |-> TRUE, parked |-> park,
              ch |-> [ch EXCEPT !.queue = q,
                                !.parkedQ = IF park THEN Append(@, who) ELSE @]]

\* Receiver::next_message: pop one message and unpark one parked sender
next_message(ch) ==
    [ch EXCEPT !.queue = Tail(@),
               !.got = Append(@, Head(ch.queue)),
               !.parkedQ = IF @ = <<>> THEN @ ELSE Tail(@),
               !.flushParked = IF ch.parkedQ # <<>> /\ Head(ch.parkedQ) = "flush"
                               THEN FALSE ELSE @]

\* Receiver::drop: close, wake every parked sender, drain the queue
receiver_drop(ch) ==
    [ch EXCEPT !.open = FALSE, !.queue = <<>>, !.parkedQ = <<>>,
               !.flushParked = FALSE]

\* one poll of SendAll: send buffered items until the sender is parked, the
\* items are exhausted or the channel turns out closed (the rest is dropped)
RECURSIVE send_all_poll(_)
send_all_poll(ch) ==
    IF ch.flushItems = <<>> THEN [ch EXCEPT !.flushing = FALSE]
    ELSE IF ch.flushParked THEN ch
    ELSE LET r == do_send(ch, Head(ch.flushItems), "flush") IN
         IF ~r.ok THEN [ch EXCEPT !.flushing = FALSE, !.flushItems = <<>>]
         ELSE send_all_poll([r.ch EXCEPT !.flushItems = Tail(@),
                                         !.flushParked = r.parked])

(***************************************************************************)
(* ServerSink and the session's sinks, home-node/src/server.rs             *)
(***************************************************************************)
Apps == {"app"}
SinkKeys == {"events"} \cup Apps

Buffer(vec) == [state |-> "Buffer", buf |-> vec, ch |-> 0]
Sender(c) == [state |-> "Sender", buf |-> <<>>, ch |-> c]
Absent == [state |-> "Absent", buf |-> <<>>, ch |-> 0]

\* HomeSessionServer::new
SinkInit ==
    /\ sink = [k \in SinkKeys |-> IF k = "events" THEN Buffer(<<>>) ELSE Absent]
    /\ chan = [c \in 1..MaxChan |-> FreshChannel]
    /\ nextChan = 1
    /\ nextItem = 1
    /\ pushRes = "none"

\* a push_event that falls back to buffering when the send fails
push_event_rebuffer(snk, chs, event) ==
    IF snk.state = "Buffer"
    THEN [sink |-> [snk EXCEPT !.buf = Append(@, event)], chan |-> chs, res |-> "Ok"]
    ELSE LET r == do_send(chs[snk.ch], event, "clone") IN
         IF r.ok THEN [sink |-> snk, chan |-> [chs EXCEPT ![snk.ch] = r.ch], res |-> "Ok"]
         ELSE [sink |-> Buffer(<<event>>), chan |-> chs, res |-> "Ok"]

\* HomeSessionServer::push_event on the sink snk and the channels chs
push_event(snk, chs, event) ==
    IF snk.state = "Buffer"
    THEN [sink |-> [snk EXCEPT !.buf = Append(@, event)], chan |-> chs, res |-> "Ok"]
    ELSE LET r == do_send(chs[snk.ch], event, "clone") IN
         [sink |-> snk, chan |-> [chs EXCEPT ![snk.ch] = r.ch],
          res |-> IF r.ok THEN "Ok" ELSE "FailedToSend"]

\* HomeSessionServer::push_call: apps.entry(app).or_insert(Buffer), then as above
push_call(snk, chs, call) ==
    LET s0 == IF snk.state = "Absent" THEN Buffer(<<>>) ELSE snk IN
    IF s0.state = "Buffer"
    THEN [sink |-> [s0 EXCEPT !.buf = Append(@, call)], chan |-> chs, res |-> "Ok"]
    ELSE LET r == do_send(chs[s0.ch], call, "clone") IN
         [sink |-> s0, chan |-> [chs EXCEPT ![s0.ch] = r.ch],
          res |-> IF r.ok THEN "Ok" ELSE "FailedToSend"]

\* the sink replacement of events() / checkin_app(): channel c is new; the
\* old sink decides which task is spawned
attach(snk, chs, c, base) ==
    LET fresh == channel(base) IN
    [sink |-> Sender(c),
     chan |-> IF snk.state = "Sender"
              THEN [chs EXCEPT ![c] = fresh, ![snk.ch].errPending = TRUE]
              ELSE IF snk.state = "Buffer"
              THEN [chs EXCEPT ![c] = [fresh EXCEPT !.flushing = TRUE,
                                                    !.flushFresh = TRUE,
                                                    !.flushItems = snk.buf]]
              ELSE [chs EXCEPT ![c] = fresh]]

\* HomeSessionServer::events
Events ==
    /\ nextChan <= MaxChan
    /\ LET r == attach(sink["events"], chan, nextChan, nextItem - 1) IN
        /\ sink' = [sink EXCEPT !["events"] = r.sink]
        /\ chan' = r.chan
    /\ nextChan' = nextChan + 1
    /\ UNCHANGED <<nextItem, pushRes>>
    /\ UNCHANGED otherThanSink

\* HomeSessionServer::push_event with the next event
PushEvent ==
    /\ nextItem <= MaxPush
    /\ LET r == push_event(sink["events"], chan, nextItem) IN
        /\ sink' = [sink EXCEPT !["events"] = r.sink]
        /\ chan' = r.chan
        /\ pushRes' = r.res
    /\ nextItem' = nextItem + 1
    /\ UNCHANGED nextChan
    /\ UNCHANGED otherThanSink

\* the consumer's for_each takes the next item from its stream
Recv(c) ==
    /\ chan[c].open /\ chan[c].queue # <<>>
    /\ chan' = [chan EXCEPT ![c] = next_message(@)]
    /\ UNCHANGED <<sink, nextChan, nextItem, pushRes>>
    /\ UNCHANGED otherThanSink

\* the reactor polls the task spawned with sender.send_all(buffer)
RunFlush(c) ==
    /\ chan[c].flushing /\ ~chan[c].flushParked
    /\ chan' = [chan EXCEPT ![c] = send_all_poll([@ EXCEPT !.flushFresh = FALSE])]
    /\ UNCHANGED <<sink, nextChan, nextItem, pushRes>>
    /\ UNCHANGED otherThanSink

\* the reactor polls the task spawned with old_sender.send(Err(..)); tasks
\* spawned on the reactor are first polled in the order they were spawned, so
\* the channel's send_all task has been polled before
RunErr(c) ==
    /\ chan[c].errPending /\ ~chan[c].flushFresh
    /\ chan' = [chan EXCEPT ![c] = [do_send(@, ErrItem, "clone").ch
                                        EXCEPT !.errPending = FALSE]]
    /\ UNCHANGED <<sink, nextChan, nextItem, pushRes>>
    /\ UNCHANGED otherThanSink

\* the consumer drops its stream
DropReceiver(c) ==
    /\ chan[c].open
    /\ chan' = [chan EXCEPT ![c] = receiver_drop(@)]
    /\ UNCHANGED <<sink, nextChan, nextItem, pushRes>>
    /\ UNCHANGED otherThanSink

SinkNext ==
    \/ Events
    \/ PushEvent
    \/ \E c \in 1..MaxChan : Recv(c)
    \/ \E c \in 1..MaxChan : RunFlush(c)
    \/ \E c \in 1..MaxChan : RunErr(c)
    \/ \E c \in 1..MaxChan : DropReceiver(c)

(***************************************************************************)
(* Home.call, home-node/src/server.rs                                      *)
(***************************************************************************)
MaxCalls == 1          \* number of Home.call requests

\* the profiles of the call scenario
HomeId == <<0>>        \* context.my_signer().profile_id() of the home
Caller == <<0, 1>>     \* context.peer_id() of the calling connection
Callee == <<1>>        \* a profile stored in hosted_profile_db
Stranger == <<1, 1>>   \* a profile that is not stored on this home

\* hosted_profile_db: the ids with a private record
HostedProfiles == {Callee}

SignerOf(id) == [id |-> id, key |-> PublicKeyOf(id), can_sign |-> TRUE]

\* the proof two profiles obtain by the handshake of the proof engine
ProofBetween(relation_type, x, y) ==
    sign_remaining_half(RelationHalfProof_new(relation_type, y, SignerOf(x)).val,
                        SignerOf(y)).res.val

\* the relation proofs clients submit with a call: a proper proof with the
\* callee, one with a profile that is not hosted, one the caller is no part
\* of, and one with the callee whose callee signature is the caller's own
CallRelations ==
    LET good == ProofBetween(RELATION_TYPE_ENABLE_CALLS_BETWEEN, Caller, Callee) IN
    { good,
      ProofBetween(RELATION_TYPE_ENABLE_CALLS_BETWEEN, Caller, Stranger),
      ProofBetween(RELATION_TYPE_ENABLE_CALLS_BETWEEN, Stranger, Callee),
      [good EXCEPT !.b_signature = Sign(SignerOf(Caller), good.b_signature.data)] }

\* Validator::validate_relation_proof(proof, id_1, key_1, id_2, key_2): the
\* proof is between the two ids and carries each one's signature over the
\* relation seen from its side
validate_relation_proof(proof, id_1, key_1, id_2, key_2) ==
    LET sig(key, me, other) ==
            [by |-> key, data |-> serialized(RelationSignablePart_new(
                                      proof.relation_type, me, other))]
    IN  \/ /\ proof.a_id = id_1 /\ proof.b_id = id_2
           /\ proof.a_signature = sig(key_1, id_1, id_2)
           /\ proof.b_signature = sig(key_2, id_2, id_1)
        \/ /\ proof.a_id = id_2 /\ proof.b_id = id_1
           /\ proof.a_signature = sig(key_2, id_2, id_1)
           /\ proof.b_signature = sig(key_1, id_1, id_2)

\* Option<AppMsgSink> values an answer can carry
NoSink == "NoSink"
AnswerValues == {NoSink, "sink1", "sink2"}

Pending == [pending |-> TRUE]

\* calls[c]:
\*   pc       "get": waiting for hosted_profile_db.get(to_profile);
\*            "push": waiting for push_call; "select": waiting in
\*            answer_fut.select(timeout_fut); "done": the future has resolved
\*   oneshot  "empty", an answer value sent by Call::answer, or "cancelled"
\*            when the Call (and its oneshot::Sender) was dropped unanswered
\*   elapsed  CFG_CALL_ANSWER_TIMEOUT has passed since the call was made
\*   fate     what push_call did with the call: "none" (not reached),
\*            "session" (handed to the callee's live session), "offline" (no
\*            live session), "failed" (the session's channel was closed)
\*   result   Pending, Ok(answer value) or Err(error kind)
\*   answers  the Call::answer calls made on the call: the value passed,
\*            whether sender.send delivered it, and what answer returned
\*   lost     where the Call was when it was dropped unanswered: "buffer",
\*            "channel", "held", or "no"
NewCall(app, relation, to_profile) ==
    [app |-> app, relation |-> relation, to |-> to_profile, pc |-> "get",
     oneshot |-> "empty", elapsed |-> FALSE, fate |-> "none", result |-> Pending,
     answers |-> <<>>, lost |-> "no"]

\* Call.request: the CallRequestDetails the call was made with
request_details(call) == [relation |-> call.relation]

\* Call::answer: sender.send(to_callee) fails when the caller's receiver is
\* gone, which it is once answer_fut.select(timeout_fut) has resolved; the
\* error is ignored and the request is returned either way
answer_late_overrides(call, to_callee) ==
    LET sent == call.pc # "done" IN
    [call EXCEPT !.oneshot = IF sent THEN to_callee ELSE @,
                 !.result = IF sent THEN @ ELSE Ok(to_callee),
                 !.answers = Append(@, [to_callee |-> to_callee, sent |-> sent,
                                        returned |-> request_details(call)])]

answer(call, to_callee) ==
    LET sent == call.pc # "done" IN
    [call EXCEPT !.oneshot = IF sent THEN to_callee ELSE @,
                 !.answers = Append(@, [to_callee |-> to_callee, sent |-> sent,
                                        returned |-> request_details(call)])]

\* the Call objects in S are dropped: their oneshot::Sender goes unanswered
cancel(cs, S, where) ==
    [c \in DOMAIN cs |->
        IF c \in S /\ cs[c].oneshot = "empty"
        THEN [cs[c] EXCEPT !.oneshot = "cancelled", !.lost = where] ELSE cs[c]]

Items(seq) == {seq[i] : i \in DOMAIN seq} \ {ErrItem}

CallInit ==
    /\ calls = <<>>
    /\ online = FALSE
    /\ held = [c \in 1..MaxChan |-> 0]

\* answer_fut.select(timeout_fut): the answer is polled first, then the timer
select_timeout_first(oneshot, elapsed) ==
    IF elapsed THEN Ok(NoSink)
    ELSE IF oneshot \in AnswerValues THEN Ok(oneshot)
    ELSE IF oneshot = "cancelled" THEN Err("FailedToReadResponse")
    ELSE Pending

select(oneshot, elapsed) ==
    IF oneshot \in AnswerValues THEN Ok(oneshot)
    ELSE IF oneshot = "cancelled" THEN Err("FailedToReadResponse")
    ELSE IF elapsed THEN Ok(NoSink)
    ELSE Pending

\* Home.call up to the first suspension: the peer of the relation relative to
\* the caller, the oneshot channel, the Call and the timer
Call(app, relation) ==
    /\ Len(calls) < MaxCalls
    /\ LET to_profile == peer_id(relation, Caller) IN
        calls' = Append(calls,
            IF to_profile.ok THEN NewCall(app, relation, to_profile.val)
            ELSE [NewCall(app, relation, Caller) EXCEPT
                      !.pc = "done", !.result = Err("ProfileMismatch")])
    /\ UNCHANGED <<online, held, sinkVars, otherThanCall>>

\* Home.call that pushes without looking at the store or the proof
CallValidate_unchecked(c) ==
    /\ c \in DOMAIN calls /\ calls[c].pc = "get"
    /\ calls' = [calls EXCEPT ![c].pc = "push"]
    /\ UNCHANGED <<online, held, sinkVars, otherThanCall>>

\* hosted_profile_db.get(to_profile) resolves, then validate_relation_proof
CallValidate(c) ==
    /\ c \in DOMAIN calls /\ calls[c].pc = "get"
    /\ calls' = [calls EXCEPT ![c] =
          IF @.to \notin HostedProfiles
          THEN [@ EXCEPT !.pc = "done", !.result = Err("PeerNotHostedHere")]
          ELSE IF ~validate_relation_proof(@.relation, Caller, PublicKeyOf(Caller),
                                           @.to, PublicKeyOf(@.to))
          THEN [@ EXCEPT !.pc = "done", !.result = Err("InvalidRelationProof")]
          ELSE [@ EXCEPT !.pc = "push"]]
    /\ UNCHANGED <<online, held, sinkVars, otherThanCall>>

\* HomeConnectionServer::push_call: get_live_session, then the session's
\* push_call, or nothing when there is no live session; the closure that owns
\* the Call ends either way
CallPush(c) ==
    /\ c \in DOMAIN calls /\ calls[c].pc = "push"
    /\ IF online
       THEN LET r == push_call(sink[calls[c].app], chan, c) IN
            /\ sink' = [sink EXCEPT ![calls[c].app] = r.sink]
            /\ chan' = r.chan
            /\ pushRes' = r.res
            /\ calls' = IF r.res = "Ok"
                        THEN [calls EXCEPT ![c].pc = "select", ![c].fate = "session"]
                        ELSE [calls EXCEPT ![c].pc = "done", ![c].fate = "failed",
                                           ![c].oneshot = "cancelled",
                                           ![c].result = Err("CallFailed")]
       ELSE /\ calls' = [calls EXCEPT ![c].pc = "select", ![c].fate = "offline",
                                      ![c].oneshot = "cancelled"]
            /\ UNCHANGED <<sink, chan, pushRes>>
    /\ UNCHANGED <<nextChan, nextItem, online, held, otherThanCall>>

\* the reactor polls answer_fut.select(timeout_fut)
CallSelect(c) ==
    /\ c \in DOMAIN calls /\ calls[c].pc = "select"
    /\ select(calls[c].oneshot, calls[c].elapsed) # Pending
    /\ calls' = [calls EXCEPT ![c].pc = "done",
                              ![c].result = select(calls[c].oneshot, calls[c].elapsed)]
    /\ UNCHANGED <<online, held, sinkVars, otherThanCall>>

\* CFG_CALL_ANSWER_TIMEOUT passes for the timer made by Timeout::new
TimerElapse(c) ==
    /\ c \in DOMAIN calls /\ calls[c].pc # "done" /\ ~calls[c].elapsed
    /\ calls' = [calls EXCEPT ![c].elapsed = TRUE]
    /\ UNCHANGED <<online, held, sinkVars, otherThanCall>>

\* Home.login of the callee: HomeSessionServer::new, registered in sessions
Login ==
    /\ ~online
    /\ online' = TRUE
    /\ sink' = [sink EXCEPT !["app"] = Absent]
    /\ UNCHANGED <<calls, held, chan, nextChan, nextItem, pushRes, otherThanCall>>

\* Drop for HomeSessionServer: the session leaves the table, its sinks and
\* the calls buffered in them are dropped
DropSession ==
    /\ online
    /\ online' = FALSE
    /\ calls' = cancel(calls, UNION {Items(sink[a].buf) : a \in Apps}, "buffer")
    /\ sink' = [k \in SinkKeys |-> IF k \in Apps THEN Absent ELSE sink[k]]
    /\ UNCHANGED <<held, chan, nextChan, nextItem, pushRes, otherThanCall>>

\* HomeSessionServer::checkin_app
CheckinApp(app) ==
    /\ online /\ nextChan <= MaxChan
    /\ LET r == attach(sink[app], chan, nextChan, 0) IN
        /\ sink' = [sink EXCEPT ![app] = r.sink]
        /\ chan' = r.chan
    /\ nextChan' = nextChan + 1
    /\ UNCHANGED <<calls, online, held, nextItem, pushRes, otherThanCall>>

\* the dispatcher's for_each takes the next item of the app's stream; a call
\* is forwarded to the client and kept until the client has responded
CallRecv(ch) ==
    /\ chan[ch].open /\ chan[ch].queue # <<>> /\ held[ch] = 0
    /\ chan' = [chan EXCEPT ![ch] = next_message(@)]
    /\ held' = [held EXCEPT ![ch] = Head(chan[ch].queue)]
    /\ UNCHANGED <<calls, online, sink, nextChan, nextItem, pushRes, otherThanCall>>

\* Call::answer(to_callee) on the call held from channel ch: the send fails,
\* unnoticed, when the caller's receiver is gone
Answer(ch, to_callee) ==
    /\ held[ch] # 0
    /\ calls' = [calls EXCEPT ![held[ch]] = answer(@, to_callee)]
    /\ held' = [held EXCEPT ![ch] = 0]
    /\ UNCHANGED <<online, sinkVars, otherThanCall>>

\* the request to the client fails: the held call is dropped unanswered and
\* the for_each ends, dropping the stream with the calls still queued
DropHeld(ch) ==
    /\ held[ch] # 0
    /\ calls' = cancel(cancel(calls, {held[ch]}, "held"),
                       Items(chan[ch].queue), "channel")
    /\ held' = [held EXCEPT ![ch] = 0]
    /\ chan' = [chan EXCEPT ![ch] = receiver_drop(@)]
    /\ UNCHANGED <<online, sink, nextChan, nextItem, pushRes, otherThanCall>>

\* the client's connection closes while no call is held: the stream is dropped
CallDropReceiver(ch) ==
    /\ chan[ch].open /\ held[ch] = 0
    /\ calls' = cancel(calls, Items(chan[ch].queue), "channel")
    /\ chan' = [chan EXCEPT ![ch] = receiver_drop(@)]
    /\ UNCHANGED <<online, held, sink, nextChan, nextItem, pushRes, otherThanCall>>

\* the reactor polls the send_all task of checkin_app; calls it cannot send
\* any more are dropped
CallRunFlush(ch) ==
    /\ chan[ch].flushing /\ ~chan[ch].flushParked
    /\ chan' = [chan EXCEPT ![ch] = send_all_poll([@ EXCEPT !.flushFresh = FALSE])]
    /\ calls' = IF chan[ch].open THEN calls
                ELSE cancel(calls, Items(chan[ch].flushItems), "channel")
    /\ UNCHANGED <<online, held, sink, nextChan, nextItem, pushRes, otherThanCall>>

\* the reactor polls the old_sender.send(Err(..)) task of checkin_app
CallRunErr(ch) ==
    /\ chan[ch].errPending /\ ~chan[ch].flushFresh
    /\ chan' = [chan EXCEPT ![ch] = [do_send(@, ErrItem, "clone").ch
                                         EXCEPT !.errPending = FALSE]]
    /\ UNCHANGED <<calls, online, held, sink, nextChan, nextItem, pushRes, otherThanCall>>

CallNext ==
    \/ \E app \in Apps, rel \in CallRelations : Call(app, rel)
    \/ \E c \in 1..MaxCalls : CallValidate(c)
    \/ \E c \in 1..MaxCalls : CallPush(c)
    \/ \E c \in 1..MaxCalls : CallSelect(c)
    \/ \E c \in 1..MaxCalls : TimerElapse(c)
    \/ Login
    \/ DropSession
    \/ \E app \in Apps : CheckinApp(app)
    \/ \E ch \in 1..MaxChan : CallRecv(ch)
    \/ \E ch \in 1..MaxChan, v \in AnswerValues : Answer(ch, v)
    \/ \E ch \in 1..MaxChan : DropHeld(ch)
    \/ \E ch \in 1..MaxChan : CallDropReceiver(ch)
    \/ \E ch \in 1..MaxChan : CallRunFlush(ch)
    \/ \E ch \in 1..MaxChan : CallRunErr(ch)

(***************************************************************************)
(* Home.register, home-node/src/server.rs, and the gateway's register,     *)
(* connect/src/client.rs                                                   *)
(***************************************************************************)
MaxRegs == 2           \* number of register requests

\* the connection that registers is authenticated as Client
Client == Callee
RegIds == {Client, Stranger}

\* PublicProfileData::id(): the key id of the public key
key_id(public_key) == public_key.pk

\* PrivateProfileData: public_data (key, version, links, attributes) and
\* private_data; of the attributes the model keeps the persona facet: whether
\* there is one, and its homes
OwnProfile_new(profile, private_data) ==
    [public_data |-> profile, private_data |-> private_data]

Profile_new(public_key, version, links, attributes) ==
    [public_key |-> public_key, version |-> version, links |-> links,
     attributes |-> attributes]

OwnProfile_id(own_prof) == key_id(own_prof.public_data.public_key)

\* Profile::as_persona: the persona facet of the profile, if it has one
as_persona(pub_prof) ==
    IF pub_prof.attributes.persona THEN Ok([homes |-> pub_prof.attributes.homes])
    ELSE Err("PersonaExpected")

\* PersonaFacet::to_attributes
to_attributes(persona_facet) == [persona |-> TRUE, homes |-> persona_facet.homes]

\* the profiles clients ask to register
ClientProfile(public_key, persona, private_data) ==
    OwnProfile_new(Profile_new(public_key, 1, <<>>,
                               [persona |-> persona, homes |-> <<>>]),
                   private_data)

\* a profile that has a link already, a version above the first and a home
ClientProfileAt(public_key, version, links, homes, private_data) ==
    OwnProfile_new(Profile_new(public_key, version, links,
                               [persona |-> TRUE, homes |-> homes]),
                   private_data)

\* the half-proofs clients submit: the proper one, and one for each check of
\* register that it fails
GoodHalfProof ==
    RelationHalfProof_new(RELATION_TYPE_HOSTED_ON_HOME, HomeId, SignerOf(Client)).val

BadHalfProofs ==
    { RelationHalfProof_new(RELATION_TYPE_HOSTED_ON_HOME, HomeId, SignerOf(Stranger)).val,
      RelationHalfProof_new(RELATION_TYPE_HOSTED_ON_HOME, Stranger, SignerOf(Client)).val,
      RelationHalfProof_new(RELATION_TYPE_ENABLE_CALLS_BETWEEN, HomeId, SignerOf(Client)).val,
      [GoodHalfProof EXCEPT !.signature = Sign(SignerOf(Stranger), @.data)] }

\* context.my_signer() of the home; its sign() may fail
HomeSigner(can_sign) == [SignerOf(HomeId) EXCEPT !.can_sign = can_sign]

\* the proof of an earlier registration of Client, on the home Stranger
EarlierHomeProof ==
    sign_remaining_half(
        RelationHalfProof_new(RELATION_TYPE_HOSTED_ON_HOME, Stranger,
                              SignerOf(Client)).val,
        SignerOf(Stranger)).res.val

\* overflow_checks: the home is a build with overflow checks (it matters for
\* a profile of the largest version only)
RegisterRequests ==
    LET reqb(own_prof, half_proof, can_sign, overflow_checks) ==
            [own_prof |-> own_prof, half_proof |-> half_proof,
             my_signer |-> HomeSigner(can_sign),
             overflow_checks |-> overflow_checks]
        req(own_prof, half_proof, can_sign) ==
            reqb(own_prof, half_proof, can_sign, FALSE)
        mine == PublicKeyOf(Client)
    IN  {req(ClientProfile(mine, TRUE, d), GoodHalfProof, TRUE) : d \in {"d1", "d2"}}
        \cup {req(ClientProfileAt(mine, 2, <<"link">>, <<EarlierHomeProof>>, "d2"),
                  GoodHalfProof, TRUE)}
        \cup {reqb(ClientProfileAt(mine, MaxVersion, <<>>, <<>>, "d1"),
                   GoodHalfProof, TRUE, b) : b \in BOOLEAN}
        \cup {req(ClientProfile(mine, FALSE, "d1"), GoodHalfProof, TRUE),
              req(ClientProfile(mine, TRUE, "d1"), GoodHalfProof, FALSE)}
        \cup {req(ClientProfile(mine, TRUE, "d1"), h, TRUE) : h \in BadHalfProofs}
        \cup {req(ClientProfile(PublicKeyOf(Stranger), TRUE, "d1"), GoodHalfProof, TRUE),
              req(ClientProfile(PublicKeyOf(Stranger), TRUE, "d1"),
                  RelationHalfProof_new(RELATION_TYPE_ENABLE_CALLS_BETWEEN, Stranger,
                                        SignerOf(Stranger)).val, TRUE)}

\* the profiles registered through the gateway
GatewayProfiles ==
    {ClientProfile(PublicKeyOf(Client), persona, "d1") : persona \in BOOLEAN}

\* the checks register makes before anything else, in the order of the code
register_checks_no_home_check(own_prof, half_proof, ctx_peer_id, peer_pubkey, my_id) ==
    IF OwnProfile_id(own_prof) # ctx_peer_id THEN "ProfileMismatch"
    ELSE IF own_prof.public_data.public_key # peer_pubkey THEN "PublicKeyMismatch"
    ELSE IF half_proof.signer_id # ctx_peer_id THEN "SignerMismatch"
    ELSE IF half_proof.relation_type # RELATION_TYPE_HOSTED_ON_HOME
         THEN "RelationTypeMismatch"
    ELSE IF ~validate_half_proof(half_proof, peer_pubkey) THEN "InvalidSignature"
    ELSE "ok"

register_checks(own_prof, half_proof, ctx_peer_id, peer_pubkey, my_id) ==
    IF OwnProfile_id(own_prof) # ctx_peer_id THEN "ProfileMismatch"
    ELSE IF own_prof.public_data.public_key # peer_pubkey THEN "PublicKeyMismatch"
    ELSE IF half_proof.signer_id # ctx_peer_id THEN "SignerMismatch"
    ELSE IF half_proof.peer_id # my_id THEN "HomeIdMismatch"
    ELSE IF half_proof.relation_type # RELATION_TYPE_HOSTED_ON_HOME
         THEN "RelationTypeMismatch"
    ELSE IF ~validate_half_proof(half_proof, peer_pubkey) THEN "InvalidSignature"
    ELSE "ok"

\* the profile register stores: the home proof appended to the homes of the
\* persona facet, the version increased by one in the width of Version
own_prof_modified(own_prof, home_proof) ==
    LET pub_prof == own_prof.public_data
        persona_facet == [homes |-> Append(as_persona(pub_prof).val.homes, home_proof)]
    IN  OwnProfile_new(Profile_new(pub_prof.public_key,
                                   (pub_prof.version + 1) % 2^VersionBits,
                                   pub_prof.links, to_attributes(persona_facet)),
                       own_prof.private_data)

\* the profile the storage errors are returned with: the clone of own_prof
\* taken before the profile is modified
error_mapper_modified(own_prof_clone, modified) ==
    modified

error_mapper(own_prof_clone, modified) ==
    own_prof_clone

\* the store writes of register that follow the lookup, in their order
reg_chain_private_first ==
    <<"set", "set_public">>

reg_chain ==
    <<"set_public", "set">>

\* regs[r]:
\*   via       "home": Home.register was called on the connection; "gateway":
\*             it was called by ProfileGatewayImpl::register
\*   had       the private store had a record for the profile's id when
\*             register was called
\*   ops       the store operations the request has made, with their outcome
\*   modified  own_prof_modified, None before it is built
\*   pc        the store operation the future waits for, or "done"
\*   result    Pending, or the Item / the Error of the future
NewReg(req, via) ==
    [own_prof |-> req.own_prof, half_proof |-> req.half_proof,
     my_signer |-> req.my_signer, overflow_checks |-> req.overflow_checks,
     via |-> via,
     had |-> hosted_profile_db[OwnProfile_id(req.own_prof)] # None,
     ops |-> <<>>, modified |-> None, pc |-> "start", result |-> Pending]

\* the future fails with (profile, kind); the gateway adds its context
Failed(rec, profile, kind) ==
    [rec EXCEPT !.pc = "done",
                !.result = [ok |-> FALSE, profile |-> profile, err |-> kind,
                            context |-> IF rec.via = "gateway"
                                        THEN "RegistrationFailed" ELSE "none"]]

\* the addition of the version panics: the request never gets a result
Panicked(rec) == [rec EXCEPT !.pc = "panicked"]

\* Home.register up to the lookup in the private store
register(rec) ==
    LET own_prof == rec.own_prof
        check == register_checks(own_prof, rec.half_proof, Client,
                                 PublicKeyOf(Client), rec.my_signer.id)
        home_proof == sign_remaining_half(rec.half_proof, rec.my_signer).res
    IN  IF check # "ok" THEN Failed(rec, own_prof, check)
        ELSE IF ~home_proof.ok THEN Failed(rec, own_prof, home_proof.err)
        ELSE IF ~as_persona(own_prof.public_data).ok
             THEN Failed(rec, own_prof, "PersonaExpected")
        ELSE IF rec.overflow_checks /\ own_prof.public_data.version = MaxVersion
             THEN Panicked(rec)
        ELSE [rec EXCEPT !.pc = "get",
                         !.modified = own_prof_modified(own_prof, home_proof.val)]

\* the request goes on after a successful write
StepAfter(rec, op) ==
    LET i == CHOOSE k \in DOMAIN reg_chain : reg_chain[k] = op IN
    IF i < Len(reg_chain) THEN [rec EXCEPT !.pc = reg_chain[i + 1]]
    ELSE [rec EXCEPT !.pc = "done",
                     !.result = [ok |-> TRUE, profile |-> rec.modified]]

Did(rec, op, ok) == [rec EXCEPT !.ops = Append(@, [op |-> op, ok |-> ok])]

NoClaim == [peer |-> Client, profile |-> Client, res |-> None, read |-> FALSE]

RegInit ==
    /\ hosted_profile_db = [i \in RegIds |-> None]
    /\ public_profile_dht = [i \in RegIds |-> None]
    /\ regs = <<>>
    /\ writes = <<>>
    /\ claimed = NoClaim

\* Home.register(own_prof, half_proof) on the connection of Client
Register(req) ==
    /\ Len(regs) < MaxRegs
    /\ regs' = Append(regs, register(NewReg(req, "home")))
    /\ UNCHANGED <<hosted_profile_db, public_profile_dht, writes, claimed, otherThanReg>>

\* ProfileGatewayImpl::register(home_id, own_prof): the gateway builds the
\* half-proof with its signer and connects to the home, which may fail
GatewayRegister(own_prof, connected) ==
    /\ Len(regs) < MaxRegs
    /\ LET half_proof == RelationHalfProof_new(RELATION_TYPE_HOSTED_ON_HOME,
                                               HomeId, SignerOf(Client)).val
           rec == NewReg([own_prof |-> own_prof, half_proof |-> half_proof,
                          my_signer |-> HomeSigner(TRUE),
                          overflow_checks |-> FALSE], "gateway")
       IN  regs' = Append(regs,
               IF connected THEN register(rec)
               ELSE [rec EXCEPT !.pc = "done",
                                !.result = [ok |-> FALSE, profile |-> own_prof,
                                            err |-> "ConnectionToHomeFailed",
                                            context |-> "none"]])
    /\ UNCHANGED <<hosted_profile_db, public_profile_dht, writes, claimed, otherThanReg>>

\* hosted_profile_db.get(own_prof.id()) resolves: any error of the store
\* counts as "not registered"
RegisterGet(r, io_error) ==
    /\ r \in DOMAIN regs /\ regs[r].pc = "get"
    /\ LET id == OwnProfile_id(regs[r].own_prof)
           found == ~io_error /\ hosted_profile_db[id] # None
           rec == Did(regs[r], "get", found)
       IN  regs' = [regs EXCEPT ![r] =
               IF found THEN Failed(rec, rec.own_prof, "AlreadyRegistered")
               ELSE [rec EXCEPT !.pc = reg_chain[1]]]
    /\ UNCHANGED <<hosted_profile_db, public_profile_dht, writes, claimed, otherThanReg>>

\* distributed_store.set_public(pub_prof_modified) resolves
RegisterSetPublic(r, ok) ==
    /\ r \in DOMAIN regs /\ regs[r].pc = "set_public"
    /\ LET id == OwnProfile_id(regs[r].own_prof)
           rec == Did(regs[r], "set_public", ok)
       IN  IF ok
           THEN /\ public_profile_dht' =
                       [public_profile_dht EXCEPT ![id] = rec.modified.public_data]
                /\ writes' = Append(writes, [r |-> r, store |-> "public", id |-> id])
                /\ regs' = [regs EXCEPT ![r] = StepAfter(rec, "set_public")]
           ELSE /\ regs' = [regs EXCEPT ![r] =
                       Failed(rec, error_mapper(rec.own_prof, rec.modified),
                              "StorageFailed")]
                /\ UNCHANGED <<public_profile_dht, writes>>
    /\ UNCHANGED <<hosted_profile_db, claimed, otherThanReg>>

\* local_store.set(own_prof_modified) resolves
RegisterSet(r, ok) ==
    /\ r \in DOMAIN regs /\ regs[r].pc = "set"
    /\ LET id == OwnProfile_id(regs[r].own_prof)
           rec == Did(regs[r], "set", ok)
       IN  IF ok
           THEN /\ hosted_profile_db' = [hosted_profile_db EXCEPT ![id] = rec.modified]
                /\ writes' = Append(writes, [r |-> r, store |-> "private", id |-> id])
                /\ regs' = [regs EXCEPT ![r] = StepAfter(rec, "set")]
           ELSE /\ regs' = [regs EXCEPT ![r] =
                       Failed(rec, error_mapper(rec.own_prof, rec.modified),
                              "StorageFailed")]
                /\ UNCHANGED <<hosted_profile_db, writes>>
    /\ UNCHANGED <<public_profile_dht, claimed, otherThanReg>>

\* Home.claim(profile) on a connection authenticated as ctx_peer_id, over
\* the private store db; read tells whether the store was looked up
claim_unchecked(ctx_peer_id, profile, db, io_error) ==
    IF ~io_error /\ db[profile] # None
    THEN [res |-> Ok(db[profile]), read |-> TRUE]
    ELSE [res |-> Err("FailedToClaimProfile"), read |-> TRUE]

claim(ctx_peer_id, profile, db, io_error) ==
    IF profile # ctx_peer_id
    THEN [res |-> Err("FailedToClaimProfile"), read |-> FALSE]
    ELSE IF ~io_error /\ db[profile] # None
    THEN [res |-> Ok(db[profile]), read |-> TRUE]
    ELSE [res |-> Err("FailedToClaimProfile"), read |-> TRUE]

Claim(ctx_peer_id, profile, io_error) ==
    /\ LET r == claim(ctx_peer_id, profile, hosted_profile_db, io_error) IN
        claimed' = [peer |-> ctx_peer_id, profile |-> profile,
                    res |-> r.res, read |-> r.read]
    /\ UNCHANGED <<hosted_profile_db, public_profile_dht, regs, writes, otherThanReg>>

RegNext ==
    \/ \E req \in RegisterRequests : Register(req)
    \/ \E own_prof \in GatewayProfiles, connected \in BOOLEAN :
          GatewayRegister(own_prof, connected)
    \/ \E r \in 1..MaxRegs, io_error \in BOOLEAN : RegisterGet(r, io_error)
    \/ \E r \in 1..MaxRegs, ok \in BOOLEAN : RegisterSetPublic(r, ok)
    \/ \E r \in 1..MaxRegs, ok \in BOOLEAN : RegisterSet(r, ok)
    \/ \E ctx_peer_id \in RegIds, profile \in RegIds, io_error \in BOOLEAN :
          Claim(ctx_peer_id, profile, io_error)

(***************************************************************************)
(* Home.login, the session table and pushes addressed to a profile,        *)
(* home-node/src/server.rs                                                 *)
(***************************************************************************)
MaxSess == 2           \* number of sessions created by login
MaxSessPush == 2       \* number of push_event / push_call requests

\* the profiles connections are authenticated as, and the keys of the table
ConnPeers == {Callee, Caller}
SessIds == {Callee, Caller, Stranger}

\* the proofs presented to login: the hosted_on_home proof of Callee (which
\* is part of Callee's public profile), that of a profile this home does not
\* store, a proof of another type, and a proof the home is no side of
LoginProofs ==
    { ProofBetween(RELATION_TYPE_HOSTED_ON_HOME, Callee, HomeId),
      ProofBetween(RELATION_TYPE_HOSTED_ON_HOME, Stranger, HomeId),
      ProofBetween(RELATION_TYPE_ENABLE_CALLS_BETWEEN, Callee, HomeId),
      ProofBetween(RELATION_TYPE_HOSTED_ON_HOME, Callee, Stranger) }

\* Home.login up to the creation of the session: the id the session is for
login_without_lookup(proof_of_home, my_id) ==
    IF proof_of_home.relation_type # RELATION_TYPE_HOSTED_ON_HOME
    THEN Err("RelationTypeMismatch")
    ELSE LET profile_id == peer_id(proof_of_home, my_id) IN
         IF ~profile_id.ok THEN Err("ProfileMismatch")
         ELSE Ok(profile_id.val)

login(proof_of_home, my_id) ==
    IF proof_of_home.relation_type # RELATION_TYPE_HOSTED_ON_HOME
    THEN Err("RelationTypeMismatch")
    ELSE LET profile_id == peer_id(proof_of_home, my_id) IN
         IF ~profile_id.ok THEN Err("ProfileMismatch")
         ELSE IF profile_id.val \notin HostedProfiles THEN Err("FailedToLoadProfile")
         ELSE Ok(profile_id.val)

\* sessions.entry(profile_id).or_insert(Rc::downgrade(&session)): an entry
\* that is there is kept, whether its session is alive or not
insert_replace(table, profile_id, s) ==
    [table EXCEPT ![profile_id] = s]

or_insert(table, profile_id, s) ==
    IF table[profile_id] # 0 THEN table ELSE [table EXCEPT ![profile_id] = s]

\* sessions.get(&to_profile).and_then(|weak| weak.upgrade())
upgrade(table, ss, to_profile) ==
    IF table[to_profile] # 0 /\ ss[table[to_profile]].alive
    THEN table[to_profile] ELSE 0

\* get_live_session: the live session of a hosted profile, 0 for none, an
\* error for a profile the private store has no record of
get_live_session(table, ss, to_profile) ==
    IF to_profile \notin HostedProfiles THEN Err("FailedToGetSession")
    ELSE Ok(upgrade(table, ss, to_profile))

NoPush == [n |-> 0, kind |-> "none", to |-> Callee, res |-> "none", target |-> 0]
NoLogin == [peer |-> Callee, proof |-> None, res |-> None, session |-> 0]
NoPair == [kind |-> "none", res |-> "none"]

SessInit ==
    /\ sessions = [p \in SessIds |-> 0]
    /\ sess = <<>>
    /\ pushed = NoPush
    /\ lastLogin = NoLogin
    /\ lastPair = NoPair

\* Home.login(proof_of_home) on a connection authenticated as peer
\* sess[s]: peer is context.peer_id() of the session, under the profile id
\* the login was for, items what was pushed to the session
SessLogin(peer, proof_of_home) ==
    /\ Len(sess) < MaxSess
    /\ LET r == login(proof_of_home, HomeId)
           s == Len(sess) + 1
       IN  IF r.ok
           THEN /\ sess' = Append(sess, [peer |-> peer, under |-> r.val,
                                         alive |-> TRUE, items |-> <<>>])
                /\ sessions' = or_insert(sessions, r.val, s)
                /\ lastLogin' = [peer |-> peer, proof |-> proof_of_home,
                                  res |-> r, session |-> s]
           ELSE /\ lastLogin' = [peer |-> peer, proof |-> proof_of_home,
                                  res |-> r, session |-> 0]
                /\ UNCHANGED <<sessions, sess>>
    /\ UNCHANGED <<pushed, lastPair, otherThanSess>>

\* the connection releases its session: Drop for HomeSessionServer removes
\* the table entry of context.peer_id()
SessDrop(s) ==
    /\ s \in DOMAIN sess /\ sess[s].alive
    /\ sess' = [sess EXCEPT ![s].alive = FALSE]
    /\ sessions' = [sessions EXCEPT ![sess[s].peer] = 0]
    /\ UNCHANGED <<pushed, lastLogin, lastPair, otherThanSess>>

\* HomeConnectionServer::push_event / push_call for to_profile: the item goes
\* to the live session, if there is one (a fresh session buffers it); from is
\* the connection that caused the push and data what the item carries
PushTo(kind, to_profile, from, data) ==
    LET live == get_live_session(sessions, sess, to_profile)
        n == pushed.n + 1
    IN  IF ~live.ok
        THEN /\ pushed' = [n |-> n, kind |-> kind, to |-> to_profile,
                           res |-> live.err, target |-> 0]
             /\ UNCHANGED sess
        ELSE /\ pushed' = [n |-> n, kind |-> kind, to |-> to_profile,
                           res |-> "Ok", target |-> live.val]
             /\ sess' = IF live.val = 0 THEN sess
                        ELSE [sess EXCEPT ![live.val].items =
                                 Append(@, [kind |-> kind, to |-> to_profile,
                                            n |-> n, at |-> Len(sess),
                                            from |-> from, data |-> data])]

SessPush(kind, to_profile) ==
    /\ pushed.n < MaxSessPush
    /\ PushTo(kind, to_profile, None, None)
    /\ UNCHANGED <<sessions, lastLogin, lastPair, otherThanSess>>

\* the half-proofs submitted to pair_request: Caller's for Callee, one signed
\* by Stranger, one with a signature that is not Caller's, one for a profile
\* that is not hosted here
PairHalfProofs ==
    LET good == RelationHalfProof_new(RELATION_TYPE_ENABLE_CALLS_BETWEEN, Callee,
                                      SignerOf(Caller)).val
    IN  { good,
          RelationHalfProof_new(RELATION_TYPE_ENABLE_CALLS_BETWEEN, Callee,
                                SignerOf(Stranger)).val,
          [good EXCEPT !.signature = Sign(SignerOf(Stranger), @.data)],
          RelationHalfProof_new(RELATION_TYPE_ENABLE_CALLS_BETWEEN, Stranger,
                                SignerOf(Caller)).val }

\* Home.pair_request up to the push: the profile the event is for
pair_request_any_signer(ctx_peer_id, half_proof) ==
    IF ~validate_half_proof(half_proof, half_proof.signer_pubkey)
    THEN Err("PublicKeyMismatch")
    ELSE Ok(half_proof.peer_id)

pair_request(ctx_peer_id, half_proof) ==
    IF half_proof.signer_id # ctx_peer_id THEN Err("ProfileMismatch")
    ELSE IF ~validate_half_proof(half_proof, PublicKeyOf(ctx_peer_id))
    THEN Err("PublicKeyMismatch")
    ELSE Ok(half_proof.peer_id)

\* Home.pair_response up to the push, on a home that stores the profiles in
\* hosted: the profile the event is for
pair_response(ctx_peer_id, relation, hosted) ==
    LET to_profile == peer_id(relation, ctx_peer_id) IN
    IF ~to_profile.ok THEN Err("ProfileMismatch")
    ELSE IF to_profile.val \notin hosted THEN Err("PeerNotHostedHere")
    ELSE IF ~validate_relation_proof(relation, ctx_peer_id, PublicKeyOf(ctx_peer_id),
                                     to_profile.val, PublicKeyOf(to_profile.val))
    THEN Err("InvalidRelationProof")
    ELSE Ok(to_profile.val)

\* Home.pair_request(half_proof) on a connection authenticated as ctx_peer_id
PairRequest(ctx_peer_id, half_proof) ==
    /\ pushed.n < MaxSessPush
    /\ LET to_profile == pair_request(ctx_peer_id, half_proof) IN
        IF to_profile.ok
        THEN /\ PushTo("PairingRequest", to_profile.val, ctx_peer_id, half_proof)
             /\ lastPair' = [kind |-> "PairingRequest", res |-> pushed'.res]
        ELSE /\ lastPair' = [kind |-> "PairingRequest", res |-> to_profile.err]
             /\ UNCHANGED <<sess, pushed>>
    /\ UNCHANGED <<sessions, lastLogin, otherThanSess>>

\* Home.pair_response(relation) on a connection authenticated as ctx_peer_id
PairResponse(ctx_peer_id, relation) ==
    /\ pushed.n < MaxSessPush
    /\ LET to_profile == pair_response(ctx_peer_id, relation, HostedProfiles) IN
        IF to_profile.ok
        THEN /\ PushTo("PairingResponse", to_profile.val, ctx_peer_id, relation)
             /\ lastPair' = [kind |-> "PairingResponse", res |-> pushed'.res]
        ELSE /\ lastPair' = [kind |-> "PairingResponse", res |-> to_profile.err]
             /\ UNCHANGED <<sess, pushed>>
    /\ UNCHANGED <<sessions, lastLogin, otherThanSess>>

SessNext ==
    \/ \E peer \in ConnPeers, proof \in LoginProofs : SessLogin(peer, proof)
    \/ \E s \in 1..MaxSess : SessDrop(s)
    \/ \E kind \in {"event", "call"}, to_profile \in SessIds : SessPush(kind, to_profile)
    \/ \E ctx_peer_id \in ConnPeers, half_proof \in PairHalfProofs :
          PairRequest(ctx_peer_id, half_proof)
    \/ \E ctx_peer_id \in ConnPeers, relation \in CallRelations :
          PairResponse(ctx_peer_id, relation)

(***************************************************************************)
(* HomeSession.unregister, home-node/src/server.rs                         *)
(***************************************************************************)
MaxUnreg == 1          \* number of unregister calls

\* the steps of an unregister call
StepRemove(u) == [u |-> u, step |-> "remove", ok |-> TRUE]
StepClear(u, store, ok) == [u |-> u, step |-> store, ok |-> ok]

\* a clear of a repository: the call returns a future. An eager repository
\* (FileProfileRepository::clear) does the work in the call and returns a
\* future that is ready; another one does it when the future is polled.
\* done: the work is done, ok: how it ended
clear_call(eager, ok) == [done |-> eager, ok |-> eager /\ ok]

\* the steps a clear makes when it is called
clear_steps(u, store, fut) ==
    IF fut.done THEN <<StepClear(u, store, fut.ok)>> ELSE <<>>

\* the body of unregister: the entry of context.peer_id() is removed from
\* the session table, hosted_profile_db.clear is called (local_fut), then
\* public_profile_dht.clear_public_local
unregister(u, eager_public, ok_public, eager_local, ok_local) ==
    LET local_fut == clear_call(eager_local, ok_local)
        public_fut == clear_call(eager_public, ok_public)
    IN  [steps |-> <<StepRemove(u)>> \o clear_steps(u, "private", local_fut)
                       \o clear_steps(u, "public", public_fut),
         local_fut |-> local_fut, public_fut |-> public_fut]

UnregInit ==
    /\ unregs = <<>>
    /\ unregLog = <<>>

\* session s calls unregister; its future waits for the public clear
Unregister(s, eager_public, ok_public, eager_local, ok_local) ==
    /\ Len(unregs) < MaxUnreg
    /\ s \in DOMAIN sess /\ sess[s].alive
    /\ LET u == Len(unregs) + 1
           profile_id == sess[s].peer
           r == unregister(u, eager_public, ok_public, eager_local, ok_local)
       IN  /\ sessions' = [sessions EXCEPT ![profile_id] = 0]
           /\ unregLog' = unregLog \o r.steps
           /\ unregs' = Append(unregs,
                  [s |-> s, profile_id |-> profile_id, pc |-> "public",
                   local_fut |-> r.local_fut, public_fut |-> r.public_fut,
                   res |-> None])
    /\ UNCHANGED <<sess, pushed, lastLogin, lastPair, otherThanUnreg>>

\* the future of clear_public_local resolves; its error ends unreg_fut, and
\* local_fut is dropped unpolled
UnregisterPublic(u, ok) ==
    /\ u \in DOMAIN unregs /\ unregs[u].pc = "public"
    /\ LET fut == unregs[u].public_fut
           good == IF fut.done THEN fut.ok ELSE ok
       IN  /\ fut.done => ok = fut.ok
           /\ unregLog' = IF fut.done THEN unregLog
                          ELSE Append(unregLog, StepClear(u, "public", ok))
           /\ unregs' = [unregs EXCEPT ![u] =
                  IF good THEN [@ EXCEPT !.pc = "private"]
                  ELSE [@ EXCEPT !.pc = "done", !.res = Err("UnregisterFailed")]]
    /\ UNCHANGED <<sessVars, otherThanUnreg>>

\* local_fut resolves
UnregisterLocal(u, ok) ==
    /\ u \in DOMAIN unregs /\ unregs[u].pc = "private"
    /\ LET fut == unregs[u].local_fut
           good == IF fut.done THEN fut.ok ELSE ok
       IN  /\ fut.done => ok = fut.ok
           /\ unregLog' = IF fut.done THEN unregLog
                          ELSE Append(unregLog, StepClear(u, "private", ok))
           /\ unregs' = [unregs EXCEPT ![u] =
                  [@ EXCEPT !.pc = "done",
                            !.res = IF good THEN Ok("unit")
                                    ELSE Err("UnregisterFailed")]]
    /\ UNCHANGED <<sessVars, otherThanUnreg>>

UnregNext ==
    \/ \E peer \in ConnPeers, proof \in LoginProofs : SessLogin(peer, proof)
    \/ \E s \in 1..MaxSess : SessDrop(s)
    \/ \E kind \in {"event", "call"}, to_profile \in SessIds : SessPush(kind, to_profile)
    \/ \E s \in 1..MaxSess, eager_public, ok_public, eager_local, ok_local \in BOOLEAN :
          Unregister(s, eager_public, ok_public, eager_local, ok_local)
    \/ \E u \in 1..MaxUnreg, ok \in BOOLEAN : UnregisterPublic(u, ok)
    \/ \E u \in 1..MaxUnreg, ok \in BOOLEAN : UnregisterLocal(u, ok)

(***************************************************************************)
(* Pairing end to end: the gateways of two profiles (connect/src/client.rs)*)
(* and the home of each (home-node/src/server.rs)                          *)
(***************************************************************************)
MaxPairs == 1          \* number of gateway pair_request calls

\* the two profiles; each is stored on its own home only
PairPeers == {Caller, Callee}
HostedAt(p) == {p}
ChanOf(p) == IF p = Caller THEN 1 ELSE 2

PairingRequest(half_proof) == [kind |-> "PairingRequest", data |-> half_proof]
PairingResponse(relation) == [kind |-> "PairingResponse", data |-> relation]

PairInit ==
    /\ pSink = [p \in PairPeers |-> Absent]
    /\ pChan = [c \in 1..2 |-> FreshChannel]
    /\ pairReqs = <<>>
    /\ pairResps = <<>>

\* a home that gives events to sessions that have no consumer yet only
home_push_event_buffer_only(hosted, to_profile, event) ==
    IF to_profile \notin hosted
    THEN [sink |-> pSink, chan |-> pChan, res |-> "FailedToGetSession"]
    ELSE IF pSink[to_profile].state # "Buffer"
    THEN [sink |-> pSink, chan |-> pChan, res |-> "Ok"]
    ELSE LET r == push_event(pSink[to_profile], pChan, event) IN
         [sink |-> [pSink EXCEPT ![to_profile] = r.sink], chan |-> r.chan,
          res |-> r.res]

\* HomeConnectionServer::push_event on the home that stores the profiles in
\* hosted: get_live_session, then the session's push_event
home_push_event(hosted, to_profile, event) ==
    IF to_profile \notin hosted
    THEN [sink |-> pSink, chan |-> pChan, res |-> "FailedToGetSession"]
    ELSE IF pSink[to_profile].state = "Absent"
    THEN [sink |-> pSink, chan |-> pChan, res |-> "Ok"]
    ELSE LET r == push_event(pSink[to_profile], pChan, event) IN
         [sink |-> [pSink EXCEPT ![to_profile] = r.sink], chan |-> r.chan,
          res |-> r.res]

\* p is logged in at its home and its events() stream is attached
Attached(p) == pSink[p].state = "Sender" /\ pChan[ChanOf(p)].open

\* ProfileGateway::login at p's own home: HomeSessionServer::new
PairLogin(p) ==
    /\ pSink[p].state = "Absent"
    /\ pSink' = [pSink EXCEPT ![p] = Buffer(<<>>)]
    /\ UNCHANGED <<pChan, pairReqs, pairResps>>
    /\ UNCHANGED otherThanPair

\* HomeSession::events of p's session
PairEvents(p) ==
    /\ pSink[p].state = "Buffer"
    /\ LET r == attach(pSink[p], pChan, ChanOf(p), 0) IN
        /\ pSink' = [pSink EXCEPT ![p] = r.sink]
        /\ pChan' = r.chan
    /\ UNCHANGED <<pairReqs, pairResps>>
    /\ UNCHANGED otherThanPair

\* ProfileGatewayImpl::pair_request(relation_type, with_profile_id) by a:
\* the half-proof is sent to a home of with_profile_id, when one connects
GwPairRequest(a, relation_type, with_profile_id, connected) ==
    /\ Len(pairReqs) < MaxPairs
    /\ a # with_profile_id
    /\ LET half_proof == RelationHalfProof_new(relation_type, with_profile_id,
                                               SignerOf(a)).val
           to_profile == pair_request(a, half_proof)
           r == IF ~connected
                THEN [sink |-> pSink, chan |-> pChan, res |-> "ConnectionToHomeFailed"]
                ELSE IF ~to_profile.ok
                THEN [sink |-> pSink, chan |-> pChan, res |-> "PairRequestFailed"]
                ELSE home_push_event(HostedAt(with_profile_id), to_profile.val,
                                     PairingRequest(half_proof))
       IN  /\ pSink' = r.sink
           /\ pChan' = r.chan
           /\ pairReqs' = Append(pairReqs,
                  [from |-> a, to |-> with_profile_id, type |-> relation_type,
                   half |-> half_proof, answered |-> FALSE,
                   res |-> IF r.res \in {"Ok", "ConnectionToHomeFailed"}
                           THEN r.res ELSE "PairRequestFailed",
                   pre |-> Attached(a) /\ Attached(with_profile_id)])
    /\ UNCHANGED pairResps
    /\ UNCHANGED otherThanPair

\* b answers the i-th request once its consumer has received the event: it
\* completes the half-proof and calls ProfileGatewayImpl::pair_response
GwPairResponse(i, connected) ==
    /\ i \in DOMAIN pairReqs
    /\ ~pairReqs[i].answered
    /\ LET b == pairReqs[i].to
           half_proof == pairReqs[i].half
           signed == sign_remaining_half(half_proof, SignerOf(b)).res
       IN  /\ \E k \in DOMAIN pChan[ChanOf(b)].got :
                 pChan[ChanOf(b)].got[k] = PairingRequest(half_proof)
           /\ signed.ok
           /\ LET proof == signed.val
                  peer == peer_id(proof, b)
                  to_profile == pair_response(b, proof, HostedAt(peer.val))
                  r == IF ~peer.ok
                       THEN [sink |-> pSink, chan |-> pChan, res |-> "LookupFailed"]
                       ELSE IF ~connected
                       THEN [sink |-> pSink, chan |-> pChan,
                             res |-> "ConnectionToHomeFailed"]
                       ELSE IF ~to_profile.ok
                       THEN [sink |-> pSink, chan |-> pChan,
                             res |-> "PeerResponseFailed"]
                       ELSE home_push_event(HostedAt(peer.val), to_profile.val,
                                            PairingResponse(proof))
              IN  /\ pSink' = r.sink
                  /\ pChan' = r.chan
                  /\ pairResps' = Append(pairResps,
                         [req |-> i, by |-> b, proof |-> proof,
                          res |-> IF r.res \in {"Ok", "ConnectionToHomeFailed",
                                                "LookupFailed"}
                                  THEN r.res ELSE "PeerResponseFailed",
                          pre |-> Attached(b) /\ Attached(pairReqs[i].from)])
    /\ pairReqs' = [pairReqs EXCEPT ![i].answered = TRUE]
    /\ UNCHANGED otherThanPair

\* p's consumer takes the next event from its stream
PairRecv(p) ==
    /\ pChan[ChanOf(p)].open /\ pChan[ChanOf(p)].queue # <<>>
    /\ pChan' = [pChan EXCEPT ![ChanOf(p)] = next_message(@)]
    /\ UNCHANGED <<pSink, pairReqs, pairResps>>
    /\ UNCHANGED otherThanPair

\* the reactor of p's home polls the send_all task spawned by events()
PairRunFlush(p) ==
    /\ pChan[ChanOf(p)].flushing /\ ~pChan[ChanOf(p)].flushParked
    /\ pChan' = [pChan EXCEPT ![ChanOf(p)] =
                    send_all_poll([@ EXCEPT !.flushFresh = FALSE])]
    /\ UNCHANGED <<pSink, pairReqs, pairResps>>
    /\ UNCHANGED otherThanPair

PairNext ==
    \/ \E p \in PairPeers : PairLogin(p)
    \/ \E p \in PairPeers : PairEvents(p)
    \/ \E a \in PairPeers, rt \in RelationTypes, b \in PairPeers, connected \in BOOLEAN :
          GwPairRequest(a, rt, b, connected)
    \/ \E i \in 1..MaxPairs, connected \in BOOLEAN : GwPairResponse(i, connected)
    \/ \E p \in PairPeers : PairRecv(p)
    \/ \E p \in PairPeers : PairRunFlush(p)

(***************************************************************************)
(* ProfileGatewayImpl::login_home and its session cache,                   *)
(* connect/src/client.rs                                                   *)
(***************************************************************************)
MaxGwCalls == 3        \* number of login_home calls

\* the homes the gateway is asked to log in to
Home2 == <<0, 0>>
GwHomes == {HomeId, Home2}

\* Profile with a facet, as loaded from the profile repository
PersonaProfile(id, homes) == [id |-> id, facet |-> [kind |-> "Persona", homes |-> homes]]
HomeProfile(id) == [id |-> id, facet |-> [kind |-> "Home", homes |-> <<>>]]

HomeProofOf(id, home_id) == ProofBetween(RELATION_TYPE_HOSTED_ON_HOME, id, home_id)

\* what profile_repo.load(my_profile_id) may give for the gateway's profile
OwnProfiles ==
    { PersonaProfile(Client, <<>>),
      PersonaProfile(Client, <<HomeProofOf(Client, HomeId)>>),
      PersonaProfile(Client, <<HomeProofOf(Client, Home2), HomeProofOf(Client, HomeId)>>),
      HomeProfile(Client) }

\* the and_then after the load in login_home: the first proof of the persona
\* whose peer is home_id
find_home_proof_any_home(profile, my_profile_id, home_id) ==
    IF profile.facet.kind # "Persona" THEN Err("PersonaProfileExpected")
    ELSE IF profile.facet.homes = <<>> THEN Err("HomeProofNotFound")
    ELSE Ok(profile.facet.homes[1])

find_home_proof(profile, my_profile_id, home_id) ==
    IF profile.facet.kind # "Persona" THEN Err("PersonaProfileExpected")
    ELSE LET homes == profile.facet.homes
             matching == { i \in DOMAIN homes :
                             LET peer == peer_id(homes[i], my_profile_id) IN
                             peer.ok /\ peer.val = home_id }
         IN  IF matching = {} THEN Err("HomeProofNotFound")
             ELSE Ok(homes[CHOOSE i \in matching : \A j \in matching : i <= j])

\* the persona lists a proof whose peer, seen from the gateway's profile, is h
ListsHome(profile, h) ==
    \E i \in DOMAIN profile.facet.homes :
        LET proof == profile.facet.homes[i] IN
        \/ proof.a_id = Client /\ proof.b_id = h
        \/ proof.b_id = Client /\ proof.a_id = h

\* gwCalls[c]: home, the argument; pc, what the future waits for; res, its
\* result; proof, the home proof found; seen, what the loaded own profile was
\* like; profile, the loaded profile of a call that failed on it; overlaps,
\* the calls for the same home that were not completed when c was made
NewLoginCall(home_profile_id) ==
    [home |-> home_profile_id, pc |-> "load", res |-> None, proof |-> None,
     profile |-> None, seen |-> None,
     overlaps |-> {c \in DOMAIN gwCalls : /\ gwCalls[c].home = home_profile_id
                                          /\ gwCalls[c].pc # "done"},
     after |-> firstOk[home_profile_id] # 0,
     loaded |-> FALSE, connected |-> FALSE, logged |-> FALSE]

GwInit ==
    /\ session_cache = [h \in GwHomes |-> 0]
    /\ gwCalls = <<>>
    /\ nextSession = 1
    /\ firstOk = [h \in GwHomes |-> 0]

\* login_home(home_profile_id) is called: a cached session is returned at
\* once, otherwise the future that loads the own profile is built
LoginHome(home_profile_id) ==
    /\ Len(gwCalls) < MaxGwCalls
    /\ gwCalls' = Append(gwCalls,
          IF session_cache[home_profile_id] # 0
          THEN [NewLoginCall(home_profile_id) EXCEPT
                   !.pc = "done", !.res = Ok(session_cache[home_profile_id])]
          ELSE NewLoginCall(home_profile_id))
    /\ UNCHANGED <<session_cache, nextSession, firstOk>>
    /\ UNCHANGED otherThanGw

\* profile_repo.load(my_profile_id) of call c completes: with an error, or
\* with profile, in which the home proof is looked up
LoginHomeLoad(c, io_error, profile) ==
    /\ c \in DOMAIN gwCalls /\ gwCalls[c].pc = "load"
    /\ LET home_proof == find_home_proof(profile, Client, gwCalls[c].home)
           seen == [persona |-> profile.facet.kind = "Persona",
                    lists |-> ListsHome(profile, gwCalls[c].home)]
       IN
       gwCalls' = [gwCalls EXCEPT ![c] =
          IF io_error
          THEN [@ EXCEPT !.loaded = TRUE, !.pc = "done",
                         !.res = Err("FailedToLoadProfile")]
          ELSE IF ~home_proof.ok
          THEN [@ EXCEPT !.loaded = TRUE, !.seen = seen, !.profile = profile,
                         !.pc = "done", !.res = home_proof]
          ELSE [@ EXCEPT !.loaded = TRUE, !.seen = seen, !.pc = "connect",
                         !.proof = home_proof.val]]
    /\ UNCHANGED <<session_cache, nextSession, firstOk>>
    /\ UNCHANGED otherThanGw

\* connect_home2 of call c completes: the load of the home's profile and
\* connector.connect
LoginHomeConnect(c, res) ==
    /\ c \in DOMAIN gwCalls /\ gwCalls[c].pc = "connect"
    /\ gwCalls' = [gwCalls EXCEPT ![c] =
          IF res = "Ok" THEN [@ EXCEPT !.connected = TRUE, !.pc = "login"]
          ELSE [@ EXCEPT !.connected = TRUE, !.pc = "done", !.res = Err(res)]]
    /\ UNCHANGED <<session_cache, nextSession, firstOk>>
    /\ UNCHANGED otherThanGw

\* home.login(home_proof) of call c completes; a session is inserted into
\* the cache under the home id
LoginHomeLogin(c, ok) ==
    /\ c \in DOMAIN gwCalls /\ gwCalls[c].pc = "login"
    /\ IF ok
       THEN /\ gwCalls' = [gwCalls EXCEPT ![c] =
                   [@ EXCEPT !.logged = TRUE, !.pc = "done", !.res = Ok(nextSession)]]
            /\ session_cache' = [session_cache EXCEPT ![gwCalls[c].home] = nextSession]
            /\ firstOk' = or_insert(firstOk, gwCalls[c].home, nextSession)
            /\ nextSession' = nextSession + 1
       ELSE /\ gwCalls' = [gwCalls EXCEPT ![c] =
                   [@ EXCEPT !.logged = TRUE, !.pc = "done", !.res = Err("LoginFailed")]]
            /\ UNCHANGED <<session_cache, nextSession, firstOk>>
    /\ UNCHANGED otherThanGw

GwNext ==
    \/ \E h \in GwHomes : LoginHome(h)
    \/ \E c \in 1..MaxGwCalls, io_error \in BOOLEAN, profile \in OwnProfiles :
          LoginHomeLoad(c, io_error, profile)
    \/ \E c \in 1..MaxGwCalls, res \in {"Ok", "FailedToLoadProfile", "ConnectionToHomeFailed"} :
          LoginHomeConnect(c, res)
    \/ \E c \in 1..MaxGwCalls, ok \in BOOLEAN : LoginHomeLogin(c, ok)

(***************************************************************************)
(* ProfileGatewayImpl::any_home_of2, connect/src/client.rs                 *)
(***************************************************************************)
MaxHomes == 3          \* number of home proofs a persona lists

\* the home proofs a loaded profile of Client may list: with either home, and
\* one that Client is no part of
AnyHomeProofs ==
    { HomeProofOf(Client, HomeId), HomeProofOf(Client, Home2),
      HomeProofOf(Stranger, HomeId) }

HomeLists == UNION { [1..n -> AnyHomeProofs] : n \in 0..MaxHomes }

AnyProfiles == { PersonaProfile(Client, homes) : homes \in HomeLists }
                   \cup {HomeProfile(Client)}

\* what a poll of a connect_home2 future may give
PollOutcomes == {"NotReady", "Ok", "FailedToLoadProfile", "ConnectionToHomeFailed"}

\* the closure mapped over homes: the future for one home proof
home_conn_fut(profile, home_proof) ==
    LET home_id == peer_id(home_proof, profile.id) IN
    IF home_id.ok
    THEN [proof |-> home_proof, home |-> home_id.val, connecting |-> TRUE,
          ready |-> "NotReady", taken |-> "none"]
    ELSE [proof |-> home_proof, home |-> None, connecting |-> FALSE,
          ready |-> "FailedToGetPeerId", taken |-> "none"]

Remove(seq, k) == [i \in 1..(Len(seq) - 1) |-> IF i < k THEN seq[i] ELSE seq[i + 1]]

\* a select_ok that gives up at the first error
RECURSIVE select_ok_first_error(_, _, _)
select_ok_first_error(inner, ready, finished) ==
    LET readyAt == { k \in DOMAIN inner : ready[inner[k]] # "NotReady" } IN
    IF readyAt = {} THEN [inner |-> inner, res |-> None, finished |-> finished]
    ELSE LET k == CHOOSE x \in readyAt : \A y \in readyAt : x <= y
             idx == inner[k]
             rest == Remove(inner, k)
             fin == Append(finished, idx)
         IN  IF ready[idx] = "Ok"
             THEN [inner |-> <<>>, res |-> Ok(idx), finished |-> fin]
             ELSE [inner |-> rest, res |-> Err([kind |-> ready[idx], of |-> idx]),
                   finished |-> fin]

\* one poll of future::select_ok(home_conn_futs): the futures are polled in
\* list order and the first that is ready is removed; Ok resolves, an error is
\* dropped unless the list is now empty; ready[i] is what future i gives
RECURSIVE select_ok(_, _, _)
select_ok(inner, ready, finished) ==
    LET readyAt == { k \in DOMAIN inner : ready[inner[k]] # "NotReady" } IN
    IF readyAt = {} THEN [inner |-> inner, res |-> None, finished |-> finished]
    ELSE LET k == CHOOSE x \in readyAt : \A y \in readyAt : x <= y
             idx == inner[k]
             rest == Remove(inner, k)
             fin == Append(finished, idx)
         IN  IF ready[idx] = "Ok"
             THEN [inner |-> <<>>, res |-> Ok(idx), finished |-> fin]
             ELSE IF rest = <<>>
             THEN [inner |-> rest, res |-> Err([kind |-> ready[idx], of |-> idx]),
                   finished |-> fin]
             ELSE select_ok(rest, ready, fin)

AnyInit ==
    /\ anyProfile = None
    /\ anyFuts = <<>>
    /\ anyInner = <<>>
    /\ anyFinished = <<>>
    /\ anyRes = None

\* any_home_of2(profile, ..) is called: a future per listed home proof
AnyHomeOf(profile) ==
    /\ anyProfile = None
    /\ anyProfile' = profile
    /\ IF profile.facet.kind # "Persona"
       THEN /\ anyRes' = Err([kind |-> "HomeProfileExpected", of |-> 0])
            /\ UNCHANGED <<anyFuts, anyInner>>
       ELSE LET homes == profile.facet.homes
                home_conn_futs == [i \in DOMAIN homes |-> home_conn_fut(profile, homes[i])]
            IN  /\ anyFuts' = home_conn_futs
                /\ anyInner' = [i \in DOMAIN homes |-> i]
                /\ anyRes' = IF Len(home_conn_futs) = 0
                             THEN Err([kind |-> "NoHomesFound", of |-> 0])
                             ELSE None
    /\ UNCHANGED anyFinished
    /\ UNCHANGED otherThanAny

\* the connect_home2 futures select_ok still holds
Connecting ==
    { i \in DOMAIN anyFuts :
        anyFuts[i].connecting /\ \E k \in DOMAIN anyInner : anyInner[k] = i }

\* the task that holds the future is polled; outcome[i] is what the i-th
\* connect_home2 future gives if it is polled now
AnyPoll(outcome) ==
    /\ anyProfile # None /\ anyRes = None
    /\ LET ready == [i \in DOMAIN anyFuts |->
                        IF i \in DOMAIN outcome THEN outcome[i] ELSE anyFuts[i].ready]
           r == select_ok(anyInner, ready, anyFinished)
       IN  /\ anyInner' = r.inner
           /\ anyFinished' = r.finished
           /\ anyFuts' = [i \in DOMAIN anyFuts |->
                            IF (\E k \in DOMAIN r.finished : r.finished[k] = i)
                               /\ anyFuts[i].taken = "none"
                            THEN [anyFuts[i] EXCEPT !.taken = ready[i]]
                            ELSE anyFuts[i]]
           /\ anyRes' = IF r.res = None THEN None
                        ELSE IF r.res.ok
                        THEN Ok([proof |-> anyFuts[r.res.val].proof,
                                 home |-> anyFuts[r.res.val].home, of |-> r.res.val])
                        ELSE r.res
    /\ UNCHANGED anyProfile
    /\ UNCHANGED otherThanAny

AnyNext ==
    \/ \E profile \in AnyProfiles : AnyHomeOf(profile)
    \/ \E outcome \in [Connecting -> PollOutcomes] : AnyPoll(outcome)

(***************************************************************************)
(* FileProfileRepository, osg/osg/src/repo.rs, and the tombstone of        *)
(* did/src/model.rs                                                        *)
(***************************************************************************)
\* the keys of the stored profiles and the content a profile may have
RepoKeys == {PublicKeyOf(Client), PublicKeyOf(Stranger)}
RepoIds == {key_id(k) : k \in RepoKeys}
NoLinks == <<>>
NoAttributes == {}
\* an empty profile, and one with a link and an attribute
RepoContents ==
    { [links |-> NoLinks, attributes |-> NoAttributes],
      [links |-> <<[peer_profile |-> HomeId]>>,
       attributes |-> {<<"1 2 3", "one two three">>}] }

\* the records callers hand to set
RepoProfiles ==
    { Profile_new(k, v, c.links, c.attributes) :
        k \in RepoKeys, v \in Versions, c \in RepoContents }

\* PublicProfileData::id, version
ProfileData_id(profile) == key_id(profile.public_key)
ProfileData_version(profile) == profile.version

\* PublicProfileData::tombstone: last_version + 1 in the width of Version
tombstone(public_key, last_version) ==
    Profile_new(public_key, (last_version + 1) % 2^VersionBits, NoLinks, NoAttributes)

\* FileProfileRepository::put: the record is inserted, then the file is saved
put(repo, id, profile, saved) ==
    [profiles |-> [repo EXCEPT ![id] = profile],
     res |-> IF saved THEN Ok(None) ELSE Err("save failed")]

\* FileProfileRepository::delete; with overflow checks compiled in, the
\* addition in tombstone panics at the largest version
delete(repo, key, saved, overflow_checks) ==
    LET id == key_id(key)
        profile == repo[id]
    IN  IF profile = None THEN [profiles |-> repo, res |-> Err("Profile not found")]
        ELSE IF overflow_checks /\ ProfileData_version(profile) = MaxVersion
        THEN [profiles |-> repo, res |-> Err("panic: attempt to add with overflow")]
        ELSE put(repo, id, tombstone(key, ProfileData_version(profile)), saved)

\* ProfileRepository::get
get(repo, id) ==
    IF repo[id] = None THEN Err("Profile not found") ELSE Ok(repo[id])

\* a set that stores whatever it is given
set_unchecked(repo, profile, saved) ==
    put(repo, ProfileData_id(profile), profile, saved)

\* ProfileRepository::set
set(repo, profile, saved) ==
    LET old_profile == repo[ProfileData_id(profile)] IN
    IF /\ old_profile # None
       /\ \/ ProfileData_version(old_profile) > ProfileData_version(profile)
          \/ /\ ProfileData_version(old_profile) = ProfileData_version(profile)
             /\ old_profile # profile
    THEN [profiles |-> repo, res |-> Err("Version must increase on profile change")]
    ELSE put(repo, ProfileData_id(profile), profile, saved)

\* ProfileRepository::clear
clear(repo, key, saved, overflow_checks) ==
    delete(repo, key, saved, overflow_checks)

NoRepoOp == [op |-> "none", id |-> Client, arg |-> None, before |-> None,
             saved |-> FALSE, res |-> None]

\* FileProfileRepository::create
RepoInit ==
    /\ profiles = [id \in RepoIds |-> None]
    /\ repoLast = NoRepoOp

\* repo.set(profile)
RepoSet(profile, saved) ==
    /\ LET r == set(profiles, profile, saved) IN
        /\ profiles' = r.profiles
        /\ repoLast' = [op |-> "set", id |-> ProfileData_id(profile), arg |-> profile,
                        before |-> profiles[ProfileData_id(profile)],
                        saved |-> saved, res |-> r.res]
    /\ UNCHANGED otherThanRepo

\* repo.clear(key)
RepoClear(key, saved, overflow_checks) ==
    /\ LET r == clear(profiles, key, saved, overflow_checks) IN
        /\ profiles' = r.profiles
        /\ repoLast' = [op |-> "clear", id |-> key_id(key), arg |-> key,
                        before |-> profiles[key_id(key)],
                        saved |-> saved, res |-> r.res]
    /\ UNCHANGED otherThanRepo

RepoNext ==
    \/ \E profile \in RepoProfiles, saved \in BOOLEAN : RepoSet(profile, saved)
    \/ \E key \in RepoKeys, saved \in BOOLEAN, overflow_checks \in BOOLEAN :
          RepoClear(key, saved, overflow_checks)

(***************************************************************************)
(* HdProfileVault, did/src/vault.rs                                        *)
(***************************************************************************)
MaxIdx == 3            \* the key indices in use stay below MaxIdx
GAP == 2               \* GAP of restore_id (20 in the code), scaled down

\* HdKeys::public_key(idx), HdKeys::id(idx): the key derived at idx
HdKeys_public_key(idx) == PublicKeyOf(<<idx>>)
HdKeys_id(idx) == key_id(HdKeys_public_key(idx))

\* an id that is not derived from the vault's seed
ForeignId == <<MaxIdx + GAP>>
VaultIds == {HdKeys_id(idx) : idx \in 0..(MaxIdx - 1)} \cup {ForeignId}

\* profiles.len().to_string()
ToLabel(n) == <<"0", "1", "2", "3", "4", "5", "6", "7", "8", "9">>[n + 1]
VaultLabels == {"1", "mine"}
VaultMetadata == {"meta"}

ProfileVaultRecord_new(id, label, metadata) ==
    [id |-> id, label |-> label, metadata |-> metadata]

\* HdProfileVault::create
HdProfileVault_create ==
    [next_idx |-> 0, active_idx |-> None, profiles |-> <<>>]

\* HdProfileVault::load: the checks made on a vault read from a file
load(vault) ==
    IF vault.next_idx < 0 THEN Err("next_idx cannot be negative")
    ELSE IF vault.active_idx # None /\ vault.active_idx.some < 0
    THEN Err("active_idx cannot be negative")
    ELSE IF vault.active_idx # None /\ ~(vault.active_idx.some < vault.next_idx)
    THEN Err("active_idx cannot exceed last profile index")
    ELSE IF vault.next_idx # Len(vault.profiles)
    THEN Err("a record must exist for each id")
    ELSE IF Len(vault.profiles)
              # Cardinality({vault.profiles[i].label : i \in DOMAIN vault.profiles})
    THEN Err("all labels must be unique")
    ELSE Ok(vault)

\* HdProfileVault::index_of_id
index_of_id(vault, id) ==
    LET found == { idx \in 0..(vault.next_idx - 1) : HdKeys_id(idx) = id } IN
    IF found = {} THEN None
    ELSE [some |-> CHOOSE idx \in found : \A other \in found : idx <= other]

\* ProfileVault::id_by_label
id_by_label(vault, label) ==
    LET at == { i \in DOMAIN vault.profiles : vault.profiles[i].label = label } IN
    IF at = {} THEN Err("label is not found in vault")
    ELSE Ok(vault.profiles[CHOOSE i \in at : \A j \in at : i <= j].id)

\* ProfileVault::create_key
create_key(vault, label_opt) ==
    LET label == IF label_opt = None THEN ToLabel(Len(vault.profiles))
                 ELSE label_opt.some
    IN
    IF id_by_label(vault, label).ok
    THEN [vault |-> vault, res |-> Err("the specified label must be unique")]
    ELSE IF Len(vault.profiles) # vault.next_idx
    THEN [vault |-> vault, res |-> Err("a record must exist for each id")]
    ELSE LET key == HdKeys_public_key(vault.next_idx) IN
         [vault |-> [next_idx |-> vault.next_idx + 1,
                     active_idx |-> [some |-> vault.next_idx],
                     profiles |-> Append(vault.profiles,
                                         ProfileVaultRecord_new(key_id(key), label, ""))],
          res |-> Ok(key)]

\* ProfileVault::restore_id
restore_id(vault, id) ==
    IF index_of_id(vault, id) # None THEN [vault |-> vault, res |-> Ok(None)]
    ELSE LET found == { idx \in vault.next_idx..(vault.next_idx + GAP - 1) :
                          HdKeys_id(idx) = id }
         IN  IF found = {} THEN [vault |-> vault, res |-> Err("not owned by this seed")]
             ELSE [vault |-> [vault EXCEPT !.next_idx = (CHOOSE idx \in found : TRUE) + 1],
                   res |-> Ok(None)]

\* ProfileVault::get_active
get_active(vault) ==
    IF vault.active_idx # None THEN Ok([some |-> HdKeys_id(vault.active_idx.some)])
    ELSE Ok(None)

\* a set_active that forgets the active profile when the id is not found
set_active_clearing(vault, id) ==
    LET idx == index_of_id(vault, id) IN
    IF idx # None
    THEN [vault |-> [vault EXCEPT !.active_idx = [some |-> idx.some]], res |-> Ok(None)]
    ELSE [vault |-> [vault EXCEPT !.active_idx = None], res |-> Err("Profile Id not found")]

\* ProfileVault::set_active
set_active(vault, id) ==
    LET idx == index_of_id(vault, id) IN
    IF idx # None
    THEN [vault |-> [vault EXCEPT !.active_idx = [some |-> idx.some]], res |-> Ok(None)]
    ELSE [vault |-> vault, res |-> Err("Profile Id not found")]

\* ProfileVault::set_label, set_metadata: the first record with the id
set_label(vault, id, label) ==
    LET at == { i \in DOMAIN vault.profiles : vault.profiles[i].id = id } IN
    IF at = {} THEN [vault |-> vault, res |-> Err("profile is not found in vault")]
    ELSE [vault |-> [vault EXCEPT !.profiles[CHOOSE i \in at : \A j \in at : i <= j].label
                                      = label],
          res |-> Ok(None)]

set_metadata(vault, id, data) ==
    LET at == { i \in DOMAIN vault.profiles : vault.profiles[i].id = id } IN
    IF at = {} THEN [vault |-> vault, res |-> Err("profile is not found in vault")]
    ELSE [vault |-> [vault EXCEPT !.profiles[CHOOSE i \in at : \A j \in at : i <= j].metadata
                                      = data],
          res |-> Ok(None)]

\* the vault as a record, and its update
Vault == [next_idx |-> next_idx, active_idx |-> active_idx, profiles |-> vault_profiles]

VaultBecomes(vault) ==
    /\ next_idx' = vault.next_idx
    /\ active_idx' = vault.active_idx
    /\ vault_profiles' = vault.profiles

NoVaultOp == [op |-> "none", id |-> ForeignId, res |-> None, active_before |-> None]

VaultInit ==
    /\ next_idx = HdProfileVault_create.next_idx
    /\ active_idx = HdProfileVault_create.active_idx
    /\ vault_profiles = HdProfileVault_create.profiles
    /\ vaultLast = NoVaultOp
    /\ created = <<>>
    /\ madeActive = None

VaultCreateKey(label_opt) ==
    /\ next_idx < MaxIdx
    /\ LET r == create_key(Vault, label_opt) IN
        /\ VaultBecomes(r.vault)
        /\ vaultLast' = [op |-> "create_key",
                         id |-> IF r.res.ok THEN key_id(r.res.val) ELSE ForeignId,
                         res |-> r.res, active_before |-> active_idx]
        /\ created' = IF r.res.ok THEN Append(created, key_id(r.res.val)) ELSE created
        /\ madeActive' = IF r.res.ok THEN [some |-> key_id(r.res.val)] ELSE madeActive
    /\ UNCHANGED otherThanVault

VaultRestoreId(id) ==
    /\ LET r == restore_id(Vault, id) IN
        /\ r.vault.next_idx <= MaxIdx
        /\ VaultBecomes(r.vault)
        /\ vaultLast' = [op |-> "restore_id", id |-> id, res |-> r.res,
                         active_before |-> active_idx]
    /\ UNCHANGED <<created, madeActive>>
    /\ UNCHANGED otherThanVault

VaultSetActive(id) ==
    /\ LET r == set_active(Vault, id) IN
        /\ VaultBecomes(r.vault)
        /\ vaultLast' = [op |-> "set_active", id |-> id, res |-> r.res,
                         active_before |-> active_idx]
        /\ madeActive' = IF r.res.ok THEN [some |-> id] ELSE madeActive
    /\ UNCHANGED created
    /\ UNCHANGED otherThanVault

VaultSetLabel(id, label) ==
    /\ LET r == set_label(Vault, id, label) IN
        /\ VaultBecomes(r.vault)
        /\ vaultLast' = [op |-> "set_label", id |-> id, res |-> r.res,
                         active_before |-> active_idx]
    /\ UNCHANGED <<created, madeActive>>
    /\ UNCHANGED otherThanVault

VaultSetMetadata(id, data) ==
    /\ LET r == set_metadata(Vault, id, data) IN
        /\ VaultBecomes(r.vault)
        /\ vaultLast' = [op |-> "set_metadata", id |-> id, res |-> r.res,
                         active_before |-> active_idx]
    /\ UNCHANGED <<created, madeActive>>
    /\ UNCHANGED otherThanVault

VaultNext ==
    \/ \E label_opt \in {None} \cup {[some |-> label] : label \in VaultLabels} :
          VaultCreateKey(label_opt)
    \/ \E id \in VaultIds : VaultRestoreId(id)
    \/ \E id \in VaultIds : VaultSetActive(id)
    \/ \E id \in VaultIds, label \in VaultLabels : VaultSetLabel(id, label)
    \/ \E id \in VaultIds, data \in VaultMetadata : VaultSetMetadata(id, data)

(***************************************************************************)
(* Properties of the profile vault                                         *)
(***************************************************************************)
\* C35: in every vault state reached by create_key, restore_id, set_active,
\* set_label and set_metadata from an empty vault, the number of profile
\* records equals next_idx and active_idx, when set, is at least 0 and below
\* next_idx, so load accepts the saved vault as far as these conditions go and
\* create_key never fails with 'a record must exist for each id'.
C35_VaultLoadable ==
    /\ Len(vault_profiles) = next_idx
    /\ active_idx # None => (0 <= active_idx.some /\ active_idx.some < next_idx)
    /\ load(Vault) \notin {Err("next_idx cannot be negative"),
                           Err("active_idx cannot be negative"),
                           Err("active_idx cannot exceed last profile index"),
                           Err("a record must exist for each id")}
    /\ vaultLast.res # Err("a record must exist for each id")

\* C36: in every vault state reached by create_key, with or without a label,
\* and set_label, the labels of the profile records are pairwise distinct,
\* which is what load requires with 'all labels must be unique'.
C36_LabelsUnique ==
    /\ \A i, j \in DOMAIN vault_profiles :
          i # j => vault_profiles[i].label # vault_profiles[j].label
    /\ load(Vault) # Err("all labels must be unique")

(***************************************************************************)
(* Properties of the event sink                                            *)
(***************************************************************************)
EventsOf(seq) == SelectSeq(seq, LAMBDA x : x # ErrItem)

\* C6: the consumer that attaches first receives the events pushed before it
\* attached in push order, each once, followed by the events pushed afterwards
\* in push order: what it has received is at all times the first events of
\* the push sequence e1, e2, e3, ...
C6_ReceivedInPushOrder ==
    chan[1].made =>
        \A i \in DOMAIN EventsOf(chan[1].got) : EventsOf(chan[1].got)[i] = i

\* C7: on the Buffer -> Sender transition no item pushed after the attach is
\* received by the consumer ahead of an item that was buffered at the attach.
C7_BufferedBeforeLater ==
    \A c \in 1..MaxChan :
        \A i, j \in DOMAIN chan[c].got :
            ~ (/\ i < j
               /\ chan[c].got[i] > chan[c].base
               /\ chan[c].got[j] # ErrItem
               /\ chan[c].got[j] <= chan[c].base)

\* C8: a channel replaced by a repeated events() receives exactly one error
\* item and nothing after it, and no item pushed after the re-attach.
C8_SupersededChannelEndsWithError ==
    \A c \in 1..MaxChan :
        (c + 1 <= MaxChan /\ chan[c].made /\ chan[c + 1].made) =>
            /\ Cardinality({i \in DOMAIN chan[c].got : chan[c].got[i] = ErrItem}) <= 1
            /\ \A i \in DOMAIN chan[c].got :
                   chan[c].got[i] = ErrItem => i = Len(chan[c].got)
            /\ \A i \in DOMAIN chan[c].got : chan[c].got[i] <= chan[c + 1].base
            /\ (chan[c].open /\ ~chan[c].errPending) =>
                   ErrItem \in {chan[c].got[i] : i \in DOMAIN chan[c].got}
                               \cup {chan[c].queue[i] : i \in DOMAIN chan[c].queue}

\* C21: a push on a sink in Sender state whose channel is closed reports
\* FailedToSend, queues the item nowhere and leaves the sink as it is; a push
\* on a sink in Buffer state reports Ok and appends the item at the end of
\* the buffer.
C21_PushOnClosedOrBuffer ==
    [][ nextItem' > nextItem =>
          LET snk == sink["events"] IN
          /\ (snk.state = "Sender" /\ ~chan[snk.ch].open) =>
                 /\ pushRes' = "FailedToSend"
                 /\ sink' = sink
                 /\ chan' = chan
          /\ snk.state = "Buffer" =>
                 /\ pushRes' = "Ok"
                 /\ sink'["events"] = Buffer(Append(snk.buf, nextItem))
                 /\ chan' = chan
      ]_vars

\* a push on the closed channel of a Sender sink has failed
C21_Witness ==
    /\ pushRes = "FailedToSend"
    /\ sink["events"].state = "Sender"
    /\ ~chan[sink["events"].ch].open

(***************************************************************************)
(* Properties of Home.call                                                 *)
(***************************************************************************)
\* C9: a call for a hosted callee without a live session is delivered to
\* nobody and resolves to None (no sink, not an error), and only once the
\* answer timeout has elapsed.
C9_OfflineCalleeGivesNoneAtTimeout ==
    \A c \in DOMAIN calls :
        (calls[c].fate = "offline" /\ calls[c].pc = "done") =>
            (calls[c].result = Ok(NoSink) /\ calls[c].elapsed)

C40_DroppedCallGivesNoneAtTimeout ==
    \A c \in DOMAIN calls :
        (calls[c].lost \in {"buffer", "channel"} /\ calls[c].pc = "done") =>
            (calls[c].result = Ok(NoSink) /\ calls[c].elapsed)

\* C39: each call gets one result: once the call has resolved, and so once
\* the timeout has decided it as None, its result never changes, whatever the
\* callee answers later; every answer, late or not, returns the
\* CallRequestDetails the call was made with and no error; and a call is
\* answered at most once.
C39_LateAnswerChangesNothing ==
    [][ \A c \in DOMAIN calls' :
          /\ Len(calls'[c].answers) <= 1
          /\ \A i \in DOMAIN calls'[c].answers :
                /\ calls'[c].answers[i].returned = [relation |-> calls'[c].relation]
                /\ ~calls'[c].answers[i].sent =>
                      (calls'[c].pc = "done" /\ calls'[c].oneshot \notin AnswerValues)
          /\ (c \in DOMAIN calls /\ calls[c].pc = "done") =>
                (calls'[c].pc = "done" /\ calls'[c].result = calls[c].result)
      ]_vars

\* the timeout decided a delivered call as None and the callee accepted it
\* with a sink afterwards
C39_Witness ==
    \E c \in DOMAIN calls :
        /\ calls[c].fate = "session" /\ calls[c].pc = "done" /\ calls[c].elapsed
        /\ calls[c].result = Ok(NoSink)
        /\ calls[c].answers = <<[to_callee |-> "sink1", sent |-> FALSE,
                                 returned |-> request_details(calls[c])]>>

\* the calls that are in the hands of the callee's side: buffered, queued,
\* held by a flush task, or received by the consumer
Pushed ==
    (UNION {Items(sink[a].buf) : a \in Apps}
     \cup UNION {Items(chan[ch].queue) \cup Items(chan[ch].got)
                 \cup Items(chan[ch].flushItems) : ch \in 1..MaxChan}
     \cup {held[ch] : ch \in 1..MaxChan}) \ {0}

\* C11: a call that passed validation and was handed to a live session and
\* is never answered resolves to None, and only once the timeout has elapsed.
C11_UnansweredGivesNoneAtTimeout ==
    \A c \in DOMAIN calls :
        (/\ calls[c].fate = "session" /\ calls[c].pc = "done"
         /\ calls[c].oneshot \notin AnswerValues) =>
            (calls[c].result = Ok(NoSink) /\ calls[c].elapsed)

\* C12: a call is pushed to a session only if the proof names the caller's
\* connection id as one side, the other side is stored in hosted_profile_db
\* and validate_relation_proof accepted the proof against the caller's key
\* and the callee's key on file; a call rejected with ProfileMismatch,
\* PeerNotHostedHere or InvalidRelationProof is pushed nowhere.
C12_OnlyValidatedCallsPushed ==
    \A c \in DOMAIN calls :
        LET rel == calls[c].relation
            to_profile == peer_id(rel, Caller)
            accepted ==
                /\ to_profile.ok
                /\ to_profile.val \in HostedProfiles
                /\ validate_relation_proof(rel, Caller, PublicKeyOf(Caller),
                        to_profile.val, PublicKeyOf(to_profile.val))
        IN  /\ (calls[c].fate # "none" \/ c \in Pushed) => accepted
            /\ calls[c].result \in {Err("ProfileMismatch"), Err("PeerNotHostedHere"),
                                    Err("InvalidRelationProof")}
                   => (calls[c].fate = "none" /\ c \notin Pushed)
            /\ (calls[c].pc = "done" /\ ~accepted) => calls[c].fate = "none"

\* a validated call has reached the callee's consumer
C12_Witness ==
    \E ch \in 1..MaxChan :
        /\ held[ch] # 0
        /\ calls[held[ch]].fate = "session"

(***************************************************************************)
(* Properties of Home.register                                             *)
(***************************************************************************)
RegKinds == {"ProfileMismatch", "PublicKeyMismatch", "SignerMismatch",
             "HomeIdMismatch", "RelationTypeMismatch", "InvalidSignature"}

\* the condition each error kind of the checks stands for
RegCondition(kind, rec) ==
    CASE kind = "ProfileMismatch" -> OwnProfile_id(rec.own_prof) # Client
      [] kind = "PublicKeyMismatch" ->
             rec.own_prof.public_data.public_key # PublicKeyOf(Client)
      [] kind = "SignerMismatch" -> rec.half_proof.signer_id # Client
      [] kind = "HomeIdMismatch" -> rec.half_proof.peer_id # HomeId
      [] kind = "RelationTypeMismatch" ->
             rec.half_proof.relation_type # RELATION_TYPE_HOSTED_ON_HOME
      [] kind = "InvalidSignature" ->
             ~validate_half_proof(rec.half_proof, PublicKeyOf(Client))

\* the request reached Home.register (the gateway's connection did not fail)
AtHome(rec) == ~(rec.pc = "done" /\ ~rec.result.ok
                 /\ rec.result.err = "ConnectionToHomeFailed")

WritesOf(r) == {i \in DOMAIN writes : writes[i].r = r}

\* C13: a request for which one of the six conditions holds is rejected with
\* the error kind of a condition that holds for it, before any store
\* operation; a request for which none holds is never rejected with one of
\* the six kinds, so the set of accepted requests is that of the requests
\* passing all six checks, whatever their order.
C13_RegisterChecks ==
    \A r \in DOMAIN regs :
        LET rec == regs[r]
            failing == {k \in RegKinds : RegCondition(k, rec)}
        IN  AtHome(rec) =>
              /\ failing # {} =>
                    /\ rec.pc = "done" /\ ~rec.result.ok
                    /\ rec.result.err \in failing
                    /\ rec.ops = <<>> /\ WritesOf(r) = {}
              /\ (failing = {} /\ rec.pc = "done" /\ ~rec.result.ok) =>
                    rec.result.err \notin RegKinds

\* a request naming another home was rejected with HomeIdMismatch
C13_Witness ==
    \E r \in DOMAIN regs :
        /\ regs[r].pc = "done" /\ ~regs[r].result.ok
        /\ regs[r].result.err = "HomeIdMismatch"
        /\ {k \in RegKinds : RegCondition(k, regs[r])} = {"HomeIdMismatch"}

\* C14: a request that passed the checks for an id that had a private record
\* when register was called fails with AlreadyRegistered and writes to
\* neither store.
C14_DuplicateRejectedUnchanged ==
    \A r \in DOMAIN regs :
        (regs[r].had /\ regs[r].ops # <<>>) =>
            /\ WritesOf(r) = {}
            /\ regs[r].pc = "done" =>
                   (~regs[r].result.ok /\ regs[r].result.err = "AlreadyRegistered")

\* C15: a request writes the private store only after its write of the public
\* store succeeded; a failed public write ends the request with no private
\* write; a failed private write ends it with StorageFailed while the public
\* record stays written.
C15_PublicBeforePrivate ==
    \A r \in DOMAIN regs :
        LET ops == regs[r].ops
            id == OwnProfile_id(regs[r].own_prof)
            did(op, ok) == \E i \in DOMAIN ops : ops[i] = [op |-> op, ok |-> ok]
        IN  /\ \A i \in DOMAIN ops :
                  ops[i].op = "set" =>
                      \E j \in 1..(i - 1) : ops[j] = [op |-> "set_public", ok |-> TRUE]
            /\ \A i \in WritesOf(r) :
                  writes[i].store = "private" =>
                      \E j \in WritesOf(r) : j < i /\ writes[j].store = "public"
            /\ did("set_public", FALSE) =>
                  /\ ~did("set", TRUE) /\ ~did("set", FALSE)
                  /\ regs[r].pc = "done" /\ ~regs[r].result.ok
                  /\ regs[r].result.err = "StorageFailed"
            /\ did("set", FALSE) =>
                  /\ regs[r].pc = "done" /\ ~regs[r].result.ok
                  /\ regs[r].result.err = "StorageFailed"
                  /\ public_profile_dht[id] # None
                  /\ \E j \in WritesOf(r) : writes[j].store = "public"

\* a private write failed after the public record had been written
C15_Witness ==
    \E r \in DOMAIN regs :
        /\ \E i \in DOMAIN regs[r].ops : regs[r].ops[i] = [op |-> "set", ok |-> FALSE]
        /\ public_profile_dht[OwnProfile_id(regs[r].own_prof)] # None
        /\ hosted_profile_db[OwnProfile_id(regs[r].own_prof)] = None

\* C16: whenever register fails, at the home or at the gateway, the error
\* comes with own_profile as the caller passed it in: no home proof appended,
\* the version not increased.
C16_FailureReturnsOriginal ==
    \A r \in DOMAIN regs :
        (regs[r].pc = "done" /\ ~regs[r].result.ok) =>
            regs[r].result.profile = regs[r].own_prof

\* a registration through the gateway failed in storage, after the modified
\* profile had been built
C16_Witness ==
    \E r \in DOMAIN regs :
        /\ regs[r].via = "gateway" /\ regs[r].pc = "done" /\ ~regs[r].result.ok
        /\ regs[r].result.err = "StorageFailed"
        /\ regs[r].modified # None /\ regs[r].modified # regs[r].own_prof

\* C22: Home.claim returns a stored OwnProfile only for the id the
\* connection is authenticated as, and it is the record the private store
\* holds; for any other id it fails with FailedToClaimProfile and the private
\* store is not read.
C22_ClaimOnlyOwnProfile ==
    [][ claimed' # claimed =>
          /\ claimed'.res.ok =>
                 /\ claimed'.profile = claimed'.peer
                 /\ claimed'.res.val = hosted_profile_db[claimed'.profile]
                 /\ claimed'.res.val # None
          /\ claimed'.profile # claimed'.peer =>
                 /\ claimed'.res = Err("FailedToClaimProfile")
                 /\ ~claimed'.read
      ]_vars

\* a connection asked for the stored profile of another id and was refused
C22_Witness ==
    /\ claimed.profile # claimed.peer
    /\ hosted_profile_db[claimed.profile] # None
    /\ claimed.res = Err("FailedToClaimProfile")

\* side x of the proof carries the signature of the other side y, made with
\* y's key over the relation as y states it
SignedFor(proof, x, y) ==
    peer_signature(proof, x) =
        Ok([by |-> PublicKeyOf(y),
            data |-> serialized(RelationSignablePart_new(proof.relation_type, y, x))])

\* stored is own_prof with the completed hosted_on_home proof between the
\* client and this home appended to the homes of the persona facet and the
\* version increased by one, and nothing else changed
OneChange(own_prof, stored) ==
    LET old == own_prof.public_data
        new == stored.public_data
        n == Len(new.attributes.homes)
    IN  /\ stored.private_data = own_prof.private_data
        /\ new.public_key = old.public_key
        /\ new.links = old.links
        /\ new.version = old.version + 1
        /\ new.attributes.persona = old.attributes.persona
        /\ n = Len(old.attributes.homes) + 1
        /\ SubSeq(new.attributes.homes, 1, n - 1) = old.attributes.homes
        /\ LET proof == new.attributes.homes[n] IN
              /\ proof.relation_type = RELATION_TYPE_HOSTED_ON_HOME
              /\ {proof.a_id, proof.b_id} = {Client, HomeId}
              /\ SignedFor(proof, HomeId, Client)
              /\ SignedFor(proof, Client, HomeId)

\* what request r writes in this step, and what it returns if the step is
\* its success
RegisterStores(r) ==
    LET rec == regs'[r]
        id == OwnProfile_id(rec.own_prof)
        wrote(store) == /\ Len(writes') = Len(writes) + 1
                        /\ writes'[Len(writes')] = [r |-> r, store |-> store, id |-> id]
        succeeds == /\ r \in DOMAIN regs /\ regs[r].pc # "done"
                    /\ rec.pc = "done" /\ rec.result.ok
    IN  /\ wrote("public") =>
              OneChange(rec.own_prof,
                        OwnProfile_new(public_profile_dht'[id], rec.own_prof.private_data))
        /\ wrote("private") => OneChange(rec.own_prof, hosted_profile_db'[id])
        /\ succeeds =>
              /\ OneChange(rec.own_prof, rec.result.profile)
              /\ wrote("private") /\ hosted_profile_db'[id] = rec.result.profile
              /\ \E i \in WritesOf(r) : writes[i].store = "public"

\* C31: a successful Home.register has written to the public and to the
\* private store the caller's profile with exactly one change: the completed
\* hosted_on_home proof between the client and this home appended to the
\* homes of the persona facet and the version increased by one; it returns
\* that same profile.
C31_RegisterStoresOneChange ==
    [][ \A r \in DOMAIN regs' : RegisterStores(r) ]_vars

C18_SessionBoundToPeer ==
    /\ \A p \in SessIds :
          sessions[p] # 0 => sess[sessions[p]].peer = p
    /\ \A s \in DOMAIN sess :
          \A i \in DOMAIN sess[s].items : sess[s].items[i].to = sess[s].peer

\* C19: once the connection has released a registered session, the table has
\* no entry for the session's profile, and a lookup for that profile gives
\* "no live session", not an error.
C19_DroppedSessionDeregistered ==
    /\ \A p \in SessIds :
          sessions[p] # 0 => sess[sessions[p]].alive
    /\ \A s \in DOMAIN sess :
          (~sess[s].alive /\ sessions[sess[s].under] \in {0, s}) =>
              /\ sessions[sess[s].under] = 0
              /\ get_live_session(sessions, sess, sess[s].under) = Ok(0)

\* C20: a push_event or push_call for a profile without a live session, be it
\* hosted and offline or not hosted here, completes with Ok; the item is
\* given to no session.
C20_PushWithoutSessionIsOk ==
    (pushed.n > 0 /\ pushed.target = 0) => pushed.res = "Ok"

\* C32: Home.login creates and registers a session only if the proof's
\* relation type is hosted_on_home, this home's id is one side of the proof
\* and the private store holds a record for the other side; otherwise it
\* fails with RelationTypeMismatch, ProfileMismatch, FailedToLoadProfile
\* respectively, and the session table is unchanged.
C32_LoginChecks ==
    [][ lastLogin' # lastLogin =>
          LET proof == lastLogin'.proof
              typeOk == proof.relation_type = RELATION_TYPE_HOSTED_ON_HOME
              sideOk == HomeId \in {proof.a_id, proof.b_id}
              other == IF proof.a_id = HomeId THEN proof.b_id ELSE proof.a_id
              stored == other \in HostedProfiles
              newSession == Len(sess') = Len(sess) + 1
          IN  /\ (newSession \/ sessions' # sessions) =>
                    /\ typeOk /\ sideOk /\ stored
                    /\ lastLogin'.res = Ok(other)
                    /\ newSession /\ sess'[Len(sess')].under = other
                    /\ sessions'[other] # 0
              /\ ~typeOk => lastLogin'.res = Err("RelationTypeMismatch")
              /\ (typeOk /\ ~sideOk) => lastLogin'.res = Err("ProfileMismatch")
              /\ (typeOk /\ sideOk /\ ~stored) =>
                    lastLogin'.res = Err("FailedToLoadProfile")
              /\ ~lastLogin'.res.ok => (sessions' = sessions /\ sess' = sess)
      ]_vars

\* a login for a profile the private store has no record of failed while the
\* table had a session registered
C32_Witness ==
    /\ lastLogin.res = Err("FailedToLoadProfile")
    /\ lastLogin.proof.relation_type = RELATION_TYPE_HOSTED_ON_HOME
    /\ HomeId \in {lastLogin.proof.a_id, lastLogin.proof.b_id}
    /\ \E p \in SessIds : sessions[p] # 0 /\ sess[sessions[p]].alive

\* the order of the steps logged by the unregister calls: the removal from the
\* session table before any clear, the private clear only after the public
\* clear succeeded
UnregOrder(log) ==
    \A i \in DOMAIN log :
        /\ log[i].step \in {"public", "private"} =>
              \E j \in 1..(i - 1) : log[j] = StepRemove(log[i].u)
        /\ log[i].step = "private" =>
              \E j \in 1..(i - 1) : log[j] = StepClear(log[i].u, "public", TRUE)

\* no item addressed to profile_id is added to session s in this step
NotDelivered(s, profile_id) ==
    \A k \in DOMAIN sess'[s].items :
        k > Len(sess[s].items) => sess'[s].items[k].to # profile_id

\* C34: HomeSession.unregister removes the entry of the caller's profile id
\* from the session table before any storage step, then clears the public
\* record and after that the private record; from the call on, no event or
\* call addressed to that profile is delivered to the session that is still
\* open, whether or not a clear fails with UnregisterFailed.
C34_UnregisterOrder ==
    [][ /\ UnregOrder(unregLog')
        /\ \A u \in DOMAIN unregs' :
              u \notin DOMAIN unregs => sessions'[unregs'[u].profile_id] = 0
        /\ \A u \in DOMAIN unregs :
              sess[unregs[u].s].alive =>
                  NotDelivered(unregs[u].s, unregs[u].profile_id)
      ]_vars

\* C37: the table entry of a live registered session is removed only in a
\* step in which that session is dropped or calls unregister; dropping another
\* session made for the same profile by a duplicate login, which was never
\* inserted into the table, leaves the first session registered.
C37_EntryRemovedOnlyByItsSession ==
    [][ \A p \in SessIds :
          LET s == sessions[p] IN
          (s # 0 /\ sess[s].alive /\ sessions'[p] # s) =>
              \/ ~sess'[s].alive
              \/ \E u \in DOMAIN unregs' : u \notin DOMAIN unregs /\ unregs'[u].s = s
      ]_vars

\* C23: a PairingRequest held by a session was submitted by the connection
\* authenticated as the half-proof's signer, validated against that
\* connection's key, and is held by the session registered for the
\* half-proof's peer; a PairingResponse held by a session was submitted by a
\* connection that is one side of the proof, whose other side is stored on
\* this home, validate_relation_proof accepted it, and it is held by the
\* session registered for that other side.
C23_PairingEventsValidated ==
    \A s \in DOMAIN sess :
          \A i \in DOMAIN sess[s].items :
              LET item == sess[s].items[i] IN
              /\ item.kind = "PairingRequest" =>
                     /\ item.data.signer_id = item.from
                     /\ validate_half_proof(item.data, PublicKeyOf(item.from))
                     /\ item.to = item.data.peer_id
                     /\ sess[s].under = item.data.peer_id
              /\ item.kind = "PairingResponse" =>
                     LET other == peer_id(item.data, item.from) IN
                     /\ other.ok
                     /\ other.val \in HostedProfiles
                     /\ validate_relation_proof(item.data, item.from,
                            PublicKeyOf(item.from), other.val, PublicKeyOf(other.val))
                     /\ item.to = other.val
                     /\ sess[s].under = other.val

\* a session holds a PairingRequest and a PairingResponse
C23_Witness ==
    \E s \in DOMAIN sess :
        /\ \E i \in DOMAIN sess[s].items : sess[s].items[i].kind = "PairingRequest"
        /\ \E i \in DOMAIN sess[s].items : sess[s].items[i].kind = "PairingResponse"

(***************************************************************************)
(* Properties of pairing end to end                                        *)
(***************************************************************************)
Received(p) == pChan[ChanOf(p)].got
InChannel(p) == pChan[ChanOf(p)].got \o pChan[ChanOf(p)].queue
Holds(seq, event) == \E k \in DOMAIN seq : seq[k] = event

\* the i-th pair_request succeeded while both sides were attached
Requested(i) ==
    i \in DOMAIN pairReqs /\ pairReqs[i].pre /\ pairReqs[i].res = "Ok"

\* the j-th pair_response succeeded while both sides were attached
Responded(j) ==
    j \in DOMAIN pairResps /\ pairResps[j].pre /\ pairResps[j].res = "Ok"

C24_Safety ==
    /\ \A i \in DOMAIN pairReqs :
          Requested(i) =>
              /\ pairReqs[i].half.signer_id = pairReqs[i].from
              /\ validate_half_proof(pairReqs[i].half, PublicKeyOf(pairReqs[i].from))
              /\ Holds(InChannel(pairReqs[i].to), PairingRequest(pairReqs[i].half))
    /\ \A j \in DOMAIN pairResps :
          LET req == pairReqs[pairResps[j].req]
              proof == pairResps[j].proof
          IN  /\ proof.relation_type = req.type
              /\ ProfileIdLess(proof.a_id, proof.b_id)
              /\ {proof.a_id, proof.b_id} = {req.from, req.to}
              /\ Responded(j) => Holds(InChannel(req.from), PairingResponse(proof))
    /\ \A p \in PairPeers :
          \A k \in DOMAIN Received(p) :
              Received(p)[k].kind = "PairingResponse" =>
                  \E i \in DOMAIN pairReqs :
                      /\ pairReqs[i].from = p
                      /\ sign_remaining_half(pairReqs[i].half,
                             SignerOf(pairReqs[i].to)).res = Ok(Received(p)[k].data)
                      /\ Holds(Received(pairReqs[i].to),
                               PairingRequest(pairReqs[i].half))

C25_CachedSessionReturned ==
    \A c \in DOMAIN gwCalls :
        gwCalls[c].after =>
            /\ gwCalls[c].res = Ok(firstOk[gwCalls[c].home])
            /\ ~gwCalls[c].loaded /\ ~gwCalls[c].connected /\ ~gwCalls[c].logged

\* C38: when a login_home(h) is called while an earlier login_home(h) of the
\* same gateway has not completed and both succeed, only one of the two made a
\* Home.login request, both got the same session handle, and the session in
\* the cache for h is the one the home registered.
C38_OverlappingLoginsShareSession ==
    \A c2 \in DOMAIN gwCalls : \A c1 \in gwCalls[c2].overlaps :
        (gwCalls[c1].pc = "done" /\ gwCalls[c2].pc = "done"
            /\ gwCalls[c1].res.ok /\ gwCalls[c2].res.ok) =>
                /\ ~(gwCalls[c1].logged /\ gwCalls[c2].logged)
                /\ gwCalls[c1].res = gwCalls[c2].res
                /\ session_cache[gwCalls[c2].home] = firstOk[gwCalls[c2].home]

\* C33: a login_home(h) that finds no cached session fails with
\* HomeProofNotFound when the loaded own persona profile lists no proof whose
\* peer is h and with PersonaProfileExpected when the own profile is not a
\* persona, in both cases without attempting a connection; the step in which a
\* login_home fails leaves the session cache unchanged, and the cache changes
\* for h only in the step in which the Home.login of a call for h succeeds.
C33_LoginHomeFailures ==
    [][ /\ \A c \in DOMAIN gwCalls' :
              LET call == gwCalls'[c]
                  early(kind) == /\ call.pc = "done" /\ call.res = Err(kind)
                                 /\ ~call.connected /\ ~call.logged
              IN  call.seen # None =>
                    /\ ~call.seen.persona => early("PersonaProfileExpected")
                    /\ (call.seen.persona /\ ~call.seen.lists) =>
                          early("HomeProofNotFound")
        /\ \A c \in DOMAIN gwCalls :
              (gwCalls[c].pc # "done" /\ gwCalls'[c].pc = "done" /\ ~gwCalls'[c].res.ok)
                  => session_cache' = session_cache
        /\ \A h \in GwHomes :
              session_cache'[h] # session_cache[h] =>
                  \E c \in DOMAIN gwCalls :
                      /\ gwCalls[c].home = h /\ gwCalls[c].pc = "login"
                      /\ gwCalls'[c].logged
                      /\ gwCalls'[c].res = Ok(session_cache'[h])
      ]_vars

\* a login_home for a home the persona does not list failed, the persona
\* listing another home, while the cache held a session for that other home
C33_Witness ==
    \E c \in DOMAIN gwCalls :
        /\ gwCalls[c].res = Err("HomeProofNotFound")
        /\ gwCalls[c].profile # None /\ gwCalls[c].profile.facet.homes # <<>>
        /\ session_cache[gwCalls[c].home] = 0
        /\ \E h \in GwHomes : session_cache[h] # 0

(***************************************************************************)
(* Properties of any_home_of                                               *)
(***************************************************************************)
\* C26: any_home_of on a persona profile starts a connection attempt for
\* every listed home; it resolves with the proof and home of the first
\* attempt that succeeds, in whatever order the attempts finish; it fails only
\* when every attempt has failed, with the error of the attempt that failed
\* last; with an empty home list it fails with NoHomesFound and makes no
\* attempt.
C26_FirstSuccessOrLastError ==
    (anyProfile # None /\ anyProfile.facet.kind = "Persona") =>
        LET homes == anyProfile.facet.homes
            n == Len(anyFinished)
        IN  /\ homes = <<>> => (anyRes = Err([kind |-> "NoHomesFound", of |-> 0])
                                /\ anyFuts = <<>>)
            /\ homes # <<>> =>
                  /\ Len(anyFuts) = Len(homes)
                  /\ \A i \in DOMAIN homes :
                        peer_id(homes[i], anyProfile.id).ok =>
                            (anyFuts[i].connecting
                             /\ anyFuts[i].home = peer_id(homes[i], anyProfile.id).val)
                  /\ (anyRes # None /\ anyRes.ok) =>
                        /\ n > 0 /\ anyRes.val.of = anyFinished[n]
                        /\ anyFuts[anyFinished[n]].taken = "Ok"
                        /\ \A k \in 1..(n - 1) : anyFuts[anyFinished[k]].taken # "Ok"
                        /\ anyRes.val.proof = homes[anyRes.val.of]
                        /\ anyRes.val.home = peer_id(homes[anyRes.val.of], anyProfile.id).val
                  /\ (anyRes # None /\ ~anyRes.ok) =>
                        /\ n = Len(homes)
                        /\ \A i \in DOMAIN anyFuts : anyFuts[i].taken \notin {"none", "Ok"}
                        /\ anyRes.err = [kind |-> anyFuts[anyFinished[n]].taken,
                                         of |-> anyFinished[n]]
                  /\ anyRes = None =>
                        \A i \in DOMAIN anyFuts : anyFuts[i].taken # "Ok"

\* of three listed homes the second failed first, then the first connected
\* while the third was still pending
C26_Witness ==
    /\ anyProfile # None /\ anyRes # None
    /\ Len(anyFuts) = 3
    /\ anyRes.ok /\ anyRes.val.of = 1 /\ anyFinished = <<2, 1>>
    /\ anyFuts[3].connecting /\ anyFuts[3].taken = "none"

C28_VersionNeverDecreases ==
    [][\A id \in RepoIds :
          profiles[id] # None =>
              /\ profiles'[id] # None
              /\ profiles'[id].version >= profiles[id].version
              /\ profiles'[id] # profiles[id] =>
                     profiles'[id].version > profiles[id].version]_vars

\* C29: clear(key) on a stored profile with version N leaves a tombstone: the
\* same public key, version N + 1, no links, no attributes, which get
\* returns; clear on an id without a record fails and changes nothing.
C29_ClearLeavesTombstone ==
    repoLast.op = "clear" =>
        LET old == repoLast.before
            now == profiles[repoLast.id]
        IN  /\ old = None => (~repoLast.res.ok /\ now = None)
            /\ old # None =>
                  /\ now = Profile_new(repoLast.arg, old.version + 1, NoLinks, NoAttributes)
                  /\ get(profiles, repoLast.id) = Ok(now)

(***************************************************************************)
(* Properties of the profile vault                                         *)
(***************************************************************************)
\* the ids the vault holds: those of the key indices below next_idx
InVault(id) == \E idx \in 0..(next_idx - 1) : HdKeys_id(idx) = id

\* C30: get_active returns the id most recently made active by create_key or
\* set_active, and None before there is one; after create_key the new profile
\* is active and is the last record of profiles(), which lists the records in
\* creation order; after set_active(id) for an id in the vault get_active
\* returns id; set_active for an id that is not in the vault fails and leaves
\* the active profile unchanged.
C30_ActiveIsLastMadeActive ==
    /\ get_active(Vault) = Ok(madeActive)
    /\ (next_idx = 0 /\ vault_profiles = <<>>) => get_active(Vault) = Ok(None)
    /\ [i \in DOMAIN vault_profiles |-> vault_profiles[i].id] = created
    /\ (vaultLast.op = "create_key" /\ vaultLast.res.ok) =>
          /\ get_active(Vault) = Ok([some |-> vaultLast.id])
          /\ vault_profiles # <<>>
          /\ vault_profiles[Len(vault_profiles)].id = vaultLast.id
    /\ vaultLast.op = "set_active" =>
          IF InVault(vaultLast.id)
          THEN vaultLast.res.ok /\ get_active(Vault) = Ok([some |-> vaultLast.id])
          ELSE ~vaultLast.res.ok /\ active_idx = vaultLast.active_before

\* with two profiles created, the first was made active again, and, in a
\* later state, set_active for a foreign id failed
C30_Witness ==
    /\ Len(vault_profiles) >= 2
    /\ vaultLast.op = "set_active" /\ vaultLast.id = ForeignId
    /\ ~vaultLast.res.ok
    /\ active_idx = [some |-> 0]

Init == ProofInit /\ SinkInit /\ CallInit /\ RegInit /\ SessInit /\ PairInit
        /\ GwInit /\ AnyInit /\ RepoInit /\ VaultInit /\ UnregInit

SpecProof == Init /\ [][ProofNext]_vars
SpecSink == Init /\ [][SinkNext]_vars
SpecCall == Init /\ [][CallNext]_vars
SpecReg == Init /\ [][RegNext]_vars
SpecSess == Init /\ [][SessNext]_vars

SpecGw == Init /\ [][GwNext]_vars
SpecAny == Init /\ [][AnyNext]_vars
SpecRepo == Init /\ [][RepoNext]_vars
SpecVault == Init /\ [][VaultNext]_vars
SpecUnreg == Init /\ [][UnregNext]_vars

\* the consumers keep reading their streams and the reactor keeps polling the
\* tasks it was given
SpecPair ==
    /\ Init /\ [][PairNext]_vars
    /\ \A p \in PairPeers : WF_vars(PairRecv(p)) /\ WF_vars(PairRunFlush(p))

====
